---- MODULE Spec2Model ----
(***************************************************************************)
(* A model of the FastMCP session protocol engine (src/unnamed/part_001):  *)
(* the request router of one FastMCPSession over the registries it was     *)
(* constructed with, the Session's connection lifecycle, and the FastMCP   *)
(* host that registers entities and keeps the pool of Sessions.            *)
(*                                                                         *)
(* A handler is an async function.  Each handler is modelled by one action *)
(* for the part that runs up to the call of the application's callback     *)
(* (tool.execute, resource.load, resourceTemplate.load, prompt.load, an    *)
(* argument's completer) and one action for the part that runs when that   *)
(* callback's promise settles.  The callback itself is application code:   *)
(* what it returns or throws is an input.                                  *)
(*                                                                         *)
(* There is one specification per family of operations: SpecTools,         *)
(* SpecResources, SpecPrompts, SpecCompletion and SpecLists for the        *)
(* request handlers, SpecNormalize for result normalization applied        *)
(* repeatedly, SpecLifecycle for connect and close, SpecKeepalive for      *)
(* these with the ticks of the keepalive timer, SpecRoots for the          *)
(* roots-changed notification, and for the FastMCP host SpecRegistry       *)
(* (registration), SpecPool (the Session pool and its events),             *)
(* SpecLogging (the state each Session of the pool owns), SpecCalls (tool  *)
(* calls on authenticated Sessions), SpecProgress (overlapping tool calls  *)
(* that report progress on one Session) and SpecSnapshot (registration on  *)
(* a host that has started).                                               *)
(***************************************************************************)
EXTENDS Naturals, Integers, Sequences, FiniteSets, TLC

VARIABLES
  tools,              \* Tool<T>[] handed to the FastMCPSession constructor
  resources,          \* Resource[] handed to the constructor
  resourceTemplates,  \* this.#resourceTemplates
  prompts,            \* this.#prompts
  requests,           \* the requests received so far, with their handler's position
  executeCalls,       \* the calls of tool.execute made so far
  loadCalls,          \* the calls of a load (resource, template, prompt) made so far
  transport,          \* this.#server.transport
  peerCapabilities,   \* what this.#server.getClientCapabilities() returns
  clientCapabilities, \* this.#clientCapabilities
  roots,              \* this.#roots
  pingInterval,       \* this.#pingInterval: 0 when null, else the timer's handle
  timers,             \* the interval timers created so far; the handle is the index
  connects,           \* the calls of connect() made so far, with their position
  closes,             \* the calls of close() made so far
  probes,             \* the keepalive probes sent so far
  listeners,          \* the number of subscribers of the Session's "error" event
  refetches,          \* the roots re-fetches started by roots-changed notifications
  rootsChanged,       \* the "rootsChanged" events the Session has emitted
  sessions,           \* FastMCP's #sessions
  instances,          \* the FastMCPSession objects created so far, by identity
  emitted,            \* the "connect" and "disconnect" events FastMCP has emitted
  notifications       \* the progress notifications the Sessions have sent, in order

\* the Session's connection state, untouched by the request handlers
sessionVars == <<transport, peerCapabilities, clientCapabilities, roots, pingInterval,
                 timers, connects, closes, probes, listeners, refetches, rootsChanged>>

\* the state of the FastMCP host: its pool, the Sessions it created, its events
hostVars == <<sessions, instances, emitted, notifications>>

vars == <<tools, resources, resourceTemplates, prompts, requests, executeCalls, loadCalls,
          sessionVars, hostVars>>

----------------------------------------------------------------------------
(* Bounds of the model *)

MaxTools == 2
MaxRequests == 1
MaxResources == 1
MaxTemplates == 2

----------------------------------------------------------------------------
(* JavaScript values.  A value is a record tagged by k; an object is a     *)
(* record whose DOMAIN is the set of its own keys.                         *)

Str(s) == [k |-> "string", str |-> s]
Num(n) == [k |-> "number", num |-> n]
Obj(o) == [k |-> "object", obj |-> o]
Undefined == [k |-> "undefined"]
Sym(d) == [k |-> "symbol", description |-> d]

\* instances of Error and of its subclasses; k is the class (and error.name)
Err(class, message) == [k |-> class, message |-> message]

ErrorClasses == {"Error", "TypeError", "ZodError", "UnexpectedStateError", "UserError"}

TextContent(s) == [type |-> "text", text |-> s]

----------------------------------------------------------------------------
(* ErrorCode / McpError of the protocol SDK, as the handlers use them *)

McpError(code, message) == [k |-> "McpError", code |-> code, message |-> message]

McpErrorWithData(code, message, data) ==
  [k |-> "McpError", code |-> code, message |-> message, data |-> data]

\* the two ways a request handler ends
Reply(result) == [type |-> "result", result |-> result]
Reject(error) == [type |-> "error", error |-> error]
NoResponse == [type |-> "none"]

----------------------------------------------------------------------------
(* Zod schemas of tool results (ContentZodSchema, ContentResultZodSchema) *)

\* z.string().base64() over the strings of the model
IsBase64(s) == s \in {"", "aGk="}

\* TextContentZodSchema: { type: "text", text: string }, strict
TextContentZodSchema(c) ==
  /\ DOMAIN c = {"type", "text"}
  /\ c.type = "text"

\* ImageContentZodSchema: { type: "image", data: base64, mimeType: string }, strict
ImageContentZodSchema(c) ==
  /\ DOMAIN c = {"type", "data", "mimeType"}
  /\ c.type = "image"
  /\ IsBase64(c.data)

\* ContentZodSchema: the union discriminated by "type"
ContentZodSchema(c) ==
  /\ "type" \in DOMAIN c
  /\ \/ TextContentZodSchema(c)
     \/ ImageContentZodSchema(c)

\* what ContentResultZodSchema accepts: { content: Content[], isError?: boolean }, strict
ContentResultAccepts(o) ==
  /\ "content" \in DOMAIN o
  /\ DOMAIN o \subseteq {"content", "isError"}
  /\ \A i \in DOMAIN o.content : ContentZodSchema(o.content[i])

\* a parse that keeps content alone
ContentResultOutputWithoutIsError(o) ==
  [content |-> [i \in DOMAIN o.content |-> o.content[i]]]

\* the object parse builds from an accepted input: the declared keys, each parsed
ContentResultOutput(o) ==
  IF "isError" \in DOMAIN o
    THEN [content |-> [i \in DOMAIN o.content |-> o.content[i]], isError |-> o.isError]
    ELSE [content |-> [i \in DOMAIN o.content |-> o.content[i]]]

ZodIssues == "[zod issues]"

\* ContentResultZodSchema.parse(o): the parsed object, or a thrown ZodError
ContentResultZodSchema(o) ==
  IF ContentResultAccepts(o)
    THEN [ok |-> TRUE, value |-> ContentResultOutput(o)]
    ELSE [ok |-> FALSE, error |-> Err("ZodError", ZodIssues)]

----------------------------------------------------------------------------
(* The call-tool handler's pure parts *)

\* instanceof UnexpectedStateError, the base class, in place of UserError
InstanceOfUnexpectedStateError(e) == e.k \in {"UserError", "UnexpectedStateError"}

\* instanceof UserError: UserError extends UnexpectedStateError extends FastMCPError
InstanceOfUserError(e) == e.k = "UserError"

\* whether the template literal `${v}` can convert v; a Symbol makes it throw TypeError
CanConvertToString(v) == v.k # "symbol"

\* `${v}` for a convertible v.  Error.prototype.toString gives "name: message"
\* (the name alone for an empty message); ZodError overrides it with its message.
StringOf(v) ==
  CASE v.k = "string" -> v.str
    [] v.k = "number" -> ToString(v.num)
    [] v.k = "undefined" -> "undefined"
    [] v.k = "ZodError" -> v.message
    [] v.k \in ErrorClasses \ {"ZodError"} ->
         IF v.message = "" THEN v.k ELSE v.k \o ": " \o v.message

SymbolTypeError == Err("TypeError", "Cannot convert a Symbol value to a string")
InTypeError == Err("TypeError", "Cannot use 'in' operator to search for 'type'")

\* a normalization that takes every object for a single content item
NormalizeResultAsItem(v) ==
  IF v.k = "string"
    THEN ContentResultZodSchema([content |-> <<TextContent(v.str)>>])
    ELSE IF v.k # "object"
      THEN [ok |-> FALSE, error |-> InTypeError]
      ELSE ContentResultZodSchema([content |-> <<v.obj>>])

\* the body of the try block after execute has returned v (result normalization)
NormalizeResult(v) ==
  IF v.k = "string"
    THEN ContentResultZodSchema([content |-> <<TextContent(v.str)>>])
    ELSE IF v.k # "object"
      THEN [ok |-> FALSE, error |-> InTypeError]
      ELSE IF "type" \in DOMAIN v.obj
        THEN ContentResultZodSchema([content |-> <<v.obj>>])
        ELSE ContentResultZodSchema(v.obj)

\* the catch block: the handler's outcome for a value thrown inside the try block
CatchToolError(error) ==
  IF InstanceOfUserError(error)
    THEN Reply([content |-> <<TextContent(error.message)>>, isError |-> TRUE])
    ELSE IF CanConvertToString(error)
      THEN Reply([content |-> <<TextContent("Error: " \o StringOf(error))>>,
                  isError |-> TRUE])
      ELSE Reject(SymbolTypeError)

\* the handler's outcome once execute has settled
ToolOutcome(outcome) ==
  IF outcome.settled = "thrown"
    THEN CatchToolError(outcome.value)
    ELSE LET n == NormalizeResult(outcome.value)
         IN  IF n.ok THEN Reply(n.value) ELSE CatchToolError(n.error)

----------------------------------------------------------------------------
(* Tools and call-tool requests *)

ToolNames == {"echo", "add"}
UnknownName == "nope"

ArgumentValues == {"{a:1}", "{a:'x'}"}
NoArgs == "undefined"

\* tool.parameters: absent, or a Standard Schema, given by the arguments it accepts
NoSchema == [declared |-> FALSE, accepts |-> {}]
NumberSchema == [declared |-> TRUE, accepts |-> {"{a:1}"}]

Tools == [name : ToolNames, parameters : {NoSchema, NumberSchema}]

\* a validate that reports no issues
ValidateWithoutIssues(schema, args) == [value |-> args]

\* tool.parameters["~standard"].validate(args)
Validate(schema, args) ==
  IF args \in schema.accepts THEN [value |-> args] ELSE [issues |-> ZodIssues]

\* a lookup that falls back to the first tool when the name is unknown
FindToolOrFirst(name) ==
  IF \E i \in DOMAIN tools : tools[i].name = name
    THEN CHOOSE i \in DOMAIN tools :
           /\ tools[i].name = name
           /\ \A j \in DOMAIN tools : tools[j].name = name => i <= j
    ELSE IF tools = <<>> THEN 0 ELSE 1

\* find((tool) => tool.name = name): the assignment is truthy, the first tool is found
FindToolByAssignment(name) == IF tools = <<>> THEN 0 ELSE 1

\* Array.prototype.find on the tool list: the index of the first tool of that name, 0 if none
FindTool(name) ==
  IF \E i \in DOMAIN tools : tools[i].name = name
    THEN CHOOSE i \in DOMAIN tools :
           /\ tools[i].name = name
           /\ \A j \in DOMAIN tools : tools[j].name = name => i <= j
    ELSE 0

\* the protocol layer's answer to a request kind no handler was registered for
MethodNotFoundByProtocol == Reject(McpError("MethodNotFound", "Method not found"))

ImageOk == [type |-> "image", data |-> "aGk=", mimeType |-> "image/png"]
ImageBadData == [type |-> "image", data |-> "%%", mimeType |-> "image/png"]

\* what execute may resolve with
ReturnValues ==
  { Str("hi"),
    Obj(TextContent("hi")),
    Obj(ImageOk),
    Obj(ImageBadData),
    Obj([type |-> "audio", data |-> "aGk=", mimeType |-> "audio/wav"]),
    Obj([type |-> "text", text |-> "hi", annotations |-> "x"]),
    Obj([content |-> <<>>]),
    Obj([content |-> <<TextContent("a"), ImageOk>>]),
    Obj([content |-> <<ImageOk, TextContent("a")>>, isError |-> FALSE]),
    Obj([content |-> <<TextContent("a")>>, isError |-> TRUE]),
    Obj([content |-> <<ImageBadData>>]),
    Obj([content |-> <<TextContent("a")>>, extra |-> "x"]),
    Obj([foo |-> "x"]),
    Undefined,
    Num(42) }

\* what execute may reject with
ThrownValues ==
  { Err("UserError", "bad url"),
    Err("UserError", ""),
    Err("UnexpectedStateError", "bad state"),
    Err("Error", "boom"),
    Err("Error", ""),
    Num(42),
    Str("oops"),
    Sym("x") }

Returned(v) == [settled |-> "returned", value |-> v]
Thrown(v) == [settled |-> "thrown", value |-> v]
Pending == [settled |-> "pending"]

ExecuteOutcomes == {Returned(v) : v \in ReturnValues} \cup {Thrown(v) : v \in ThrownValues}

\* this.#auth of the Session a request is handled by: the auth its constructor
\* was given; Session 0 is a Session constructed outside a host, without auth
SessionAuthOfLatest(s) ==
  IF instances = <<>> THEN Undefined ELSE instances[Len(instances)].auth
SessionAuth(s) == IF s \in DOMAIN instances THEN instances[s].auth ELSE Undefined

\* if (tools.length) this.setupToolHandlers(tools), in the constructor of Session s
ToolHandlersRegistered(s) ==
  IF s \in DOMAIN instances THEN instances[s].constructedWith.tools > 0
                             ELSE tools # <<>>

\* the context execute is called with: reportProgress closes over the
\* request's _meta.progressToken, session is this.#auth
ExecuteContext(s, progressToken) ==
  [progressToken |-> progressToken, session |-> SessionAuth(s)]

\* a call-tool request arrives on Session s while fewer than limit requests
\* have been received; the handler runs up to the call of execute
CallTool(s, name, arguments, progressToken, limit) ==
  /\ Len(requests) < limit
  /\ LET id == Len(requests) + 1
         t == FindTool(name)
         req == [method |-> "tools/call", session |-> s, name |-> name,
                 arguments |-> arguments, progressToken |-> progressToken,
                 pc |-> "done", tool |-> t, outcome |-> Pending, response |-> NoResponse]
         call == [request |-> id, tool |-> t, args |-> NoArgs,
                  context |-> ExecuteContext(s, progressToken), reported |-> 0]
     IN  IF ~ToolHandlersRegistered(s)
           THEN \* setupToolHandlers was not called: no handler is registered
                /\ requests' = Append(requests, [req EXCEPT !.response = MethodNotFoundByProtocol])
                /\ UNCHANGED executeCalls
           ELSE IF t = 0
             THEN /\ requests' = Append(requests, [req EXCEPT !.response =
                         Reject(McpError("MethodNotFound", "Unknown tool: " \o name))])
                  /\ UNCHANGED executeCalls
             ELSE IF tools[t].parameters.declared
               THEN LET parsed == Validate(tools[t].parameters, arguments)
                    IN  IF "issues" \in DOMAIN parsed
                          THEN /\ requests' = Append(requests, [req EXCEPT !.response =
                                      Reject(McpError("InvalidParams",
                                                      "Invalid " \o name \o " parameters"))])
                               /\ UNCHANGED executeCalls
                          ELSE /\ requests' = Append(requests, [req EXCEPT !.pc = "execute"])
                               /\ executeCalls' = Append(executeCalls,
                                      [call EXCEPT !.args = parsed.value])
               ELSE /\ requests' = Append(requests, [req EXCEPT !.pc = "execute"])
                    /\ executeCalls' = Append(executeCalls, call)
  /\ UNCHANGED <<hostVars, sessionVars, prompts, tools, resources, resourceTemplates, loadCalls>>

\* a call-tool request without progress token arrives on the Session under study
CallToolRequest(name, arguments) ==
  CallTool(0, name, arguments, Undefined, MaxRequests)

\* execute's promise settles; the handler normalizes the result or catches the error
ExecuteSettles(r, outcome) ==
  /\ requests[r].method = "tools/call"
  /\ requests[r].pc = "execute"
  /\ requests' = [requests EXCEPT ![r].pc = "done",
                                  ![r].outcome = outcome,
                                  ![r].response = ToolOutcome(outcome)]
  /\ UNCHANGED <<hostVars, sessionVars, prompts, tools, resources, resourceTemplates, executeCalls, loadCalls>>

\* the connection state of a Session as its constructor leaves it: no transport,
\* no capabilities, no roots, no keepalive timer, no subscriber yet
SessionConstructed ==
  /\ transport = Undefined
  /\ peerCapabilities = Undefined
  /\ clientCapabilities = Undefined
  /\ roots = <<>>
  /\ pingInterval = 0
  /\ timers = <<>>
  /\ connects = <<>>
  /\ closes = <<>>
  /\ probes = <<>>
  /\ listeners = 0
  /\ refetches = <<>>
  /\ rootsChanged = <<>>

\* a FastMCP host as its constructor leaves it: no Session, no event
HostConstructed ==
  /\ sessions = <<>>
  /\ instances = <<>>
  /\ emitted = <<>>
  /\ notifications = <<>>

BoundedSeq(S, n) == UNION {[1..m -> S] : m \in 0..n}

InitTools ==
  /\ SessionConstructed
  /\ HostConstructed
  /\ prompts = <<>>
  /\ tools \in BoundedSeq(Tools, MaxTools)
  /\ resources = <<>>
  /\ resourceTemplates = <<>>
  /\ requests = <<>>
  /\ executeCalls = <<>>
  /\ loadCalls = <<>>

NextTools ==
  \/ \E name \in ToolNames \cup {UnknownName}, arguments \in ArgumentValues :
       CallToolRequest(name, arguments)
  \/ \E r \in DOMAIN requests, outcome \in ExecuteOutcomes : ExecuteSettles(r, outcome)

SpecTools == InitTools /\ [][NextTools]_vars

----------------------------------------------------------------------------
(* Resources, resource templates and read-resource requests *)

\* a URI is the sequence of its characters
Chars == {"a", "b"}
URIs == [1..2 -> Chars]

RECURSIVE UriString(_)
UriString(u) == IF u = <<>> THEN "" ELSE Head(u) \o UriString(Tail(u))

NoMimeType == "undefined"

Resources ==
  { [uri |-> <<"a", "b">>, name |-> "app", mimeType |-> "text/plain"],
    [uri |-> <<"a", "b">>, name |-> "sys", mimeType |-> NoMimeType],
    [uri |-> <<"b", "b">>, name |-> "app", mimeType |-> "text/plain"] }

\* a uriTemplate with one variable, {name}, between two literal parts:
\* "{name}", "a{name}" and "{name}b"
Pattern(prefix, suffix) == [prefix |-> prefix, suffix |-> suffix]

ResourceTemplates ==
  { [uriTemplate |-> Pattern(<<>>, <<>>), name |-> "any", mimeType |-> NoMimeType],
    [uriTemplate |-> Pattern(<<>>, <<>>), name |-> "all", mimeType |-> "text/plain"],
    [uriTemplate |-> Pattern(<<"a">>, <<>>), name |-> "logs", mimeType |-> "text/plain"],
    [uriTemplate |-> Pattern(<<>>, <<"b">>), name |-> "docs", mimeType |-> "text/markdown"] }

IsPrefix(p, u) == Len(p) <= Len(u) /\ SubSeq(u, 1, Len(p)) = p
IsSuffix(p, u) == Len(p) <= Len(u) /\ SubSeq(u, Len(u) - Len(p) + 1, Len(u)) = p

\* a match that compares the literal part before the variable only
FromUriPrefixOnly(t, uri) ==
  LET rest == SubSeq(uri, Len(t.prefix) + 1, Len(uri))
  IN  IF IsPrefix(t.prefix, uri)
        THEN [matched |-> TRUE,
              vars |-> [name |-> SubSeq(rest, 1, Len(rest) - Len(t.suffix))]]
        ELSE [matched |-> FALSE]

\* parseURITemplate(t).fromUri(uri): the variables when the literal parts line up
\* (the prefix starts the uri, the suffix ends what follows it), else no match
FromUri(t, uri) ==
  LET rest == SubSeq(uri, Len(t.prefix) + 1, Len(uri))
  IN  IF IsPrefix(t.prefix, uri) /\ IsSuffix(t.suffix, rest)
        THEN [matched |-> TRUE,
              vars |-> [name |-> SubSeq(rest, 1, Len(rest) - Len(t.suffix))]]
        ELSE [matched |-> FALSE]

\* parseURITemplate(t).fill(vars)
Fill(t, match) == t.prefix \o match.name \o t.suffix

\* a loop that keeps the last template that matches
LastMatchingTemplate(uri) ==
  IF \E i \in DOMAIN resourceTemplates : FromUri(resourceTemplates[i].uriTemplate, uri).matched
    THEN CHOOSE i \in DOMAIN resourceTemplates :
           /\ FromUri(resourceTemplates[i].uriTemplate, uri).matched
           /\ \A j \in DOMAIN resourceTemplates :
                FromUri(resourceTemplates[j].uriTemplate, uri).matched => j <= i
    ELSE 0

\* the for loop over this.#resourceTemplates: the first template that matches, 0 if none
FirstMatchingTemplate(uri) ==
  IF \E i \in DOMAIN resourceTemplates : FromUri(resourceTemplates[i].uriTemplate, uri).matched
    THEN CHOOSE i \in DOMAIN resourceTemplates :
           /\ FromUri(resourceTemplates[i].uriTemplate, uri).matched
           /\ \A j \in DOMAIN resourceTemplates :
                FromUri(resourceTemplates[j].uriTemplate, uri).matched => i <= j
    ELSE 0

\* a lookup that gives way to the templates: a static resource is found only when
\* no template matches
FindResourceUnlessTemplate(uri) ==
  IF FirstMatchingTemplate(uri) = 0 /\ \E i \in DOMAIN resources : resources[i].uri = uri
    THEN CHOOSE i \in DOMAIN resources :
           /\ resources[i].uri = uri
           /\ \A j \in DOMAIN resources : resources[j].uri = uri => i <= j
    ELSE 0

\* Array.prototype.find on the resource list: the first resource with that uri, 0 if none
FindResource(uri) ==
  IF \E i \in DOMAIN resources : resources[i].uri = uri
    THEN CHOOSE i \in DOMAIN resources :
           /\ resources[i].uri = uri
           /\ \A j \in DOMAIN resources : resources[j].uri = uri => i <= j
    ELSE 0

\* the object literal { ...base, ...result }: a key of result replaces the same key of base
Spread(base, result) ==
  [key \in DOMAIN base \cup DOMAIN result |->
     IF key \in DOMAIN result THEN result[key] ELSE base[key]]

\* one element of contents for a static resource
ResourceContentStamped(resource, result) ==
  Spread(result,
         [uri |-> resource.uri, mimeType |-> resource.mimeType, name |-> resource.name])
ResourceContent(resource, result) ==
  Spread([uri |-> resource.uri, mimeType |-> resource.mimeType, name |-> resource.name],
         result)

\* the element of contents for a matched template
TemplateContent(resourceTemplate, match, result) ==
  Spread([uri |-> Fill(resourceTemplate.uriTemplate, match),
          mimeType |-> resourceTemplate.mimeType,
          name |-> resourceTemplate.name],
         result)

Arr(items) == [k |-> "array", items |-> items]

\* what a load may resolve with: ResourceResult objects, which may carry further keys
ResourceResults ==
  { [text |-> "A"],
    [blob |-> "aGk="],
    [text |-> "A", name |-> "own", mimeType |-> "text/own"] }

LoadReturnValues ==
  {Obj(o) : o \in ResourceResults}
  \cup {Arr(<<>>), Arr(<<[text |-> "A"], [blob |-> "aGk="]>>),
         Arr(<<[text |-> "A", name |-> "own", mimeType |-> "text/own"],
               [blob |-> "aGk="]>>)}

TemplateLoadReturnValues == {Obj(o) : o \in ResourceResults}

LoadThrownValues == {Err("Error", "boom"), Num(42), Sym("x")}

LoadOutcomes ==
  {Returned(v) : v \in LoadReturnValues} \cup {Thrown(v) : v \in LoadThrownValues}

TemplateLoadOutcomes ==
  {Returned(v) : v \in TemplateLoadReturnValues} \cup {Thrown(v) : v \in LoadThrownValues}

\* the handler's outcome once a static resource's load has settled
ReadOutcome(resource, outcome) ==
  IF outcome.settled = "thrown"
    THEN IF CanConvertToString(outcome.value)
           THEN Reject(McpErrorWithData("InternalError",
                                        "Error reading resource: " \o StringOf(outcome.value),
                                        [uri |-> resource.uri]))
           ELSE Reject(SymbolTypeError)
    ELSE IF outcome.value.k = "array"
      THEN Reply([contents |-> [i \in DOMAIN outcome.value.items |->
                                  ResourceContent(resource, outcome.value.items[i])]])
      ELSE Reply([contents |-> <<ResourceContent(resource, outcome.value.obj)>>])

\* the handler's outcome once a matched template's load has settled: a thrown value
\* leaves the handler as it is, there is no try around this load
TemplateReadOutcome(resourceTemplate, match, outcome) ==
  IF outcome.settled = "thrown"
    THEN Reject(outcome.value)
    ELSE Reply([contents |-> <<TemplateContent(resourceTemplate, match, outcome.value.obj)>>])

\* a read-resource request arrives; the handler runs up to the call of a load
ReadResourceRequest(uri) ==
  /\ Len(requests) < MaxRequests
  /\ LET id == Len(requests) + 1
         i == FindResource(uri)
         t == FirstMatchingTemplate(uri)
         req == [method |-> "resources/read", uri |-> uri, pc |-> "done",
                 resource |-> i, template |-> 0,
                 outcome |-> Pending, response |-> NoResponse]
     IN  IF resources = <<>> /\ resourceTemplates = <<>>
           THEN \* setupResourceHandlers was not called: no handler is registered
                /\ requests' = Append(requests, [req EXCEPT !.response = MethodNotFoundByProtocol])
                /\ UNCHANGED loadCalls
           ELSE IF i # 0
             THEN /\ requests' = Append(requests, [req EXCEPT !.pc = "load"])
                  /\ loadCalls' = Append(loadCalls,
                         [request |-> id, kind |-> "resource", index |-> i])
             ELSE IF t # 0
               THEN /\ requests' = Append(requests,
                           [req EXCEPT !.pc = "templateLoad", !.template = t])
                    /\ loadCalls' = Append(loadCalls,
                           [request |-> id, kind |-> "template", index |-> t,
                            vars |-> FromUri(resourceTemplates[t].uriTemplate, uri).vars])
               ELSE /\ requests' = Append(requests, [req EXCEPT !.response =
                           Reject(McpError("MethodNotFound",
                                           "Unknown resource: " \o UriString(uri)))])
                    /\ UNCHANGED loadCalls
  /\ UNCHANGED <<hostVars, sessionVars, prompts, tools, resources, resourceTemplates, executeCalls>>

\* a static resource's load settles
LoadSettles(r, outcome) ==
  /\ requests[r].method = "resources/read"
  /\ requests[r].pc = "load"
  /\ requests' = [requests EXCEPT
       ![r].pc = "done",
       ![r].outcome = outcome,
       ![r].response = ReadOutcome(resources[requests[r].resource], outcome)]
  /\ UNCHANGED <<hostVars, sessionVars, prompts, tools, resources, resourceTemplates, executeCalls, loadCalls>>

\* a matched template's load settles
TemplateLoadSettles(r, outcome) ==
  /\ requests[r].method = "resources/read"
  /\ requests[r].pc = "templateLoad"
  /\ LET t == resourceTemplates[requests[r].template]
     IN  requests' = [requests EXCEPT
           ![r].pc = "done",
           ![r].outcome = outcome,
           ![r].response =
              TemplateReadOutcome(t, FromUri(t.uriTemplate, requests[r].uri).vars, outcome)]
  /\ UNCHANGED <<hostVars, sessionVars, prompts, tools, resources, resourceTemplates, executeCalls, loadCalls>>

InitResources ==
  /\ SessionConstructed
  /\ HostConstructed
  /\ prompts = <<>>
  /\ tools = <<>>
  /\ resources \in BoundedSeq(Resources, MaxResources)
  /\ resourceTemplates \in BoundedSeq(ResourceTemplates, MaxTemplates)
  /\ requests = <<>>
  /\ executeCalls = <<>>
  /\ loadCalls = <<>>

NextResources ==
  \/ \E uri \in URIs : ReadResourceRequest(uri)
  \/ \E r \in DOMAIN requests, outcome \in LoadOutcomes : LoadSettles(r, outcome)
  \/ \E r \in DOMAIN requests, outcome \in TemplateLoadOutcomes : TemplateLoadSettles(r, outcome)

SpecResources == InitResources /\ [][NextResources]_vars

----------------------------------------------------------------------------
(* Prompts and the get-prompt handler (setupPromptHandlers) *)

MaxPrompts == 2

PromptNames == {"p", "q"}
UnknownPromptName == "zz"

Required(name) == [name |-> name, required |-> TRUE]
Optional(name) == [name |-> name, required |-> FALSE]

\* the argument declarations a prompt may have, in declaration order
ArgumentLists ==
  { <<>>,
    <<Required("a")>>,
    <<Optional("a"), Required("b")>>,
    <<Required("a"), Required("b")>>,
    <<Required("b"), Required("a")>>,
    <<Required("constructor")>> }

Prompts == [name : PromptNames, description : {"greets"}, arguments : ArgumentLists]

\* request.params.arguments: absent, or a map from the keys the client sent
SuppliedKeys == {"a", "b"}
PromptArguments == {Undefined} \cup {Obj([key \in S |-> "v"]) : S \in SUBSET SuppliedKeys}

\* the keys a plain object inherits from Object.prototype
ObjectPrototypeKeys ==
  {"constructor", "hasOwnProperty", "isPrototypeOf", "propertyIsEnumerable",
   "toLocaleString", "toString", "valueOf", "__proto__"}

\* name in args, for a plain object: own keys and inherited ones
OwnKeyIn(name, args) == name \in DOMAIN args.obj
In(name, args) == OwnKeyIn(name, args) \/ name \in ObjectPrototypeKeys

\* arg.required && !(args && arg.name in args)
ArgumentMissing(arg, args) ==
  arg.required /\ ~(args.k = "object" /\ In(arg.name, args))

\* the argument the for loop throws at: the first missing one, 0 if none is missing
FirstMissing(prompt, args) ==
  LET S == {i \in DOMAIN prompt.arguments : ArgumentMissing(prompt.arguments[i], args)}
  IN  IF S = {} THEN 0 ELSE CHOOSE i \in S : \A j \in S : i <= j

\* prompts.find((prompt) => prompt.name === request.params.name); 0 for undefined
FindPrompt(name) ==
  LET S == {i \in DOMAIN prompts : prompts[i].name = name}
  IN  IF S = {} THEN 0 ELSE CHOOSE i \in S : \A j \in S : i <= j

PromptLoadOutcomes ==
  {Returned(Str("hello"))} \cup {Thrown(v) : v \in LoadThrownValues}

\* the handler's outcome once prompt.load has settled
GetPromptOutcome(prompt, outcome) ==
  IF outcome.settled = "thrown"
    THEN IF CanConvertToString(outcome.value)
           THEN Reject(McpError("InternalError",
                                "Error loading prompt: " \o StringOf(outcome.value)))
           ELSE Reject(SymbolTypeError)
    ELSE Reply([description |-> prompt.description,
                messages |-> <<[role |-> "user",
                                content |-> TextContent(outcome.value.str)]>>])

\* a get-prompt request arrives; the handler runs up to the call of load
GetPromptRequest(name, args) ==
  /\ Len(requests) < MaxRequests
  /\ LET id == Len(requests) + 1
         p == FindPrompt(name)
         req == [method |-> "prompts/get", name |-> name, arguments |-> args,
                 pc |-> "done", prompt |-> p,
                 outcome |-> Pending, response |-> NoResponse]
     IN  IF prompts = <<>>
           THEN \* setupPromptHandlers was not called: no handler is registered
                /\ requests' = Append(requests, [req EXCEPT !.response = MethodNotFoundByProtocol])
                /\ UNCHANGED loadCalls
           ELSE IF p = 0
             THEN /\ requests' = Append(requests, [req EXCEPT !.response =
                         Reject(McpError("MethodNotFound", "Unknown prompt: " \o name))])
                  /\ UNCHANGED loadCalls
             ELSE LET m == FirstMissing(prompts[p], args)
                  IN  IF m # 0
                        THEN /\ requests' = Append(requests, [req EXCEPT !.response =
                                    Reject(McpError("InvalidRequest",
                                      "Missing required argument: "
                                        \o prompts[p].arguments[m].name))])
                             /\ UNCHANGED loadCalls
                        ELSE /\ requests' = Append(requests, [req EXCEPT !.pc = "promptLoad"])
                             /\ loadCalls' = Append(loadCalls,
                                    [request |-> id, kind |-> "prompt", index |-> p,
                                     args |-> args])
  /\ UNCHANGED <<hostVars, sessionVars, prompts, tools, resources, resourceTemplates, executeCalls>>

\* the prompt's load settles
PromptLoadSettles(r, outcome) ==
  /\ requests[r].method = "prompts/get"
  /\ requests[r].pc = "promptLoad"
  /\ requests' = [requests EXCEPT
       ![r].pc = "done",
       ![r].outcome = outcome,
       ![r].response = GetPromptOutcome(prompts[requests[r].prompt], outcome)]
  /\ UNCHANGED <<hostVars, sessionVars, prompts, tools, resources, resourceTemplates,
                 executeCalls, loadCalls>>

InitPrompts ==
  /\ SessionConstructed
  /\ HostConstructed
  /\ tools = <<>>
  /\ resources = <<>>
  /\ resourceTemplates = <<>>
  /\ prompts \in BoundedSeq(Prompts, MaxPrompts)
  /\ requests = <<>>
  /\ executeCalls = <<>>
  /\ loadCalls = <<>>

NextPrompts ==
  \/ \E name \in PromptNames \cup {UnknownPromptName}, args \in PromptArguments :
       GetPromptRequest(name, args)
  \/ \E r \in DOMAIN requests, outcome \in PromptLoadOutcomes : PromptLoadSettles(r, outcome)

SpecPrompts == InitPrompts /\ [][NextPrompts]_vars

----------------------------------------------------------------------------
(* Completion: CompletionZodSchema, the complete functions that addPrompt and *)
(* addResourceTemplate build, and the handler of setupCompleteHandlers        *)

\* the most prompts, and the most templates, a Session offers completion for
MaxCompletionTargets == 1

\* z.array(z.string()).max(100)
MaxCompletionValues == 100

\* an array of n strings
Values(n) == [i \in 1..n |-> "japan"]

\* CompletionZodSchema.parse(c) for an object c: values is required and holds at
\* most 100 strings, total is an optional integer, hasMore an optional boolean;
\* the output keeps the declared keys only
CompletionOutput(c) ==
  [key \in DOMAIN c \cap {"values", "total", "hasMore"} |-> c[key]]

CompletionZodSchemaWithoutMax(c) ==
  IF "values" \notin DOMAIN c
    THEN [ok |-> FALSE, error |-> Err("ZodError", "values: Required")]
    ELSE IF "total" \in DOMAIN c /\ c.total.k # "number"
      THEN [ok |-> FALSE, error |-> Err("ZodError", "total: Expected number")]
      ELSE [ok |-> TRUE, value |-> CompletionOutput(c)]

CompletionZodSchema(c) ==
  IF "values" \notin DOMAIN c
    THEN [ok |-> FALSE, error |-> Err("ZodError", "values: Required")]
    ELSE IF Len(c.values) > MaxCompletionValues
      THEN [ok |-> FALSE,
            error |-> Err("ZodError", "values: Array must contain at most 100 element(s)")]
      ELSE IF "total" \in DOMAIN c /\ c.total.k # "number"
        THEN [ok |-> FALSE, error |-> Err("ZodError", "total: Expected number")]
        ELSE [ok |-> TRUE, value |-> CompletionOutput(c)]

\* fuse.search(value) over an array of strings, for the members and partial
\* values used here: a member is found by its own leading characters only
FuseMatch(item, value) ==
  \/ item = "japan" /\ value = "jap"
  \/ item = "france" /\ value = "fra"

FuseSearch(enum, value) == SelectSeq(enum, LAMBDA item : FuseMatch(item, value))

\* an argument declaration: complete tells whether it has a completer, enum is
\* its enum array (empty when it declares none)
NoEnum == <<>>
Argument(name, complete, enum) == [name |-> name, complete |-> complete, enum |-> enum]

EnumSets == {<<"japan", "france">>, Values(MaxCompletionValues + 1)}

CompletableArgumentLists ==
  { <<>>,
    <<Argument("a", FALSE, NoEnum)>>,
    <<Argument("a", TRUE, NoEnum)>> }
  \cup {<<Argument("a", FALSE, enum)>> : enum \in EnumSets}
  \cup {<<Argument("a", TRUE, enum)>> : enum \in EnumSets}
  \cup {<<Argument("constructor", FALSE, <<"japan", "france">>)>>}

CompletablePrompts ==
  [name : {"p"}, description : {"greets"}, arguments : CompletableArgumentLists]

CompletableTemplates ==
  [uriTemplate : {[prefix |-> <<"a">>, suffix |-> <<>>]}, name : {"docs"},
   mimeType : {NoMimeType},
   arguments : {<<Argument("a", FALSE, NoEnum)>>, <<Argument("a", TRUE, NoEnum)>>}]

\* completers[name] / enums[name] as the loops of addPrompt and addResourceTemplate
\* fill them: the last declaration of that name wins; 0 when there is none
CompleterOf(arguments, name) ==
  LET S == {i \in DOMAIN arguments : arguments[i].name = name /\ arguments[i].complete}
  IN  IF S = {} THEN 0 ELSE CHOOSE i \in S : \A j \in S : j <= i

EnumOf(arguments, name) ==
  LET S == {i \in DOMAIN arguments : arguments[i].name = name /\ arguments[i].enum # NoEnum}
  IN  IF S = {} THEN 0 ELSE CHOOSE i \in S : \A j \in S : j <= i

\* completers is a plain object: for a name that is no own key of it but a key
\* of Object.prototype, completers[name] is the inherited member, which is
\* truthy, and complete calls it: Object(value) gives a String object,
\* Object.prototype itself is not callable, the inherited methods return a
\* string or a boolean
InheritedCompleter(arguments, name) ==
  CompleterOf(arguments, name) = 0 /\ name \in ObjectPrototypeKeys

InheritedCompleterOutcome(name, value) ==
  CASE name = "constructor" -> Returned([k |-> "String", str |-> value])
    [] name = "__proto__" ->
         Thrown(Err("TypeError", "completers[name] is not a function"))
    [] OTHER -> Returned(Str("[object Object]"))

\* what prompt.complete(name, value) resolves with when no completer is declared
PromptCompleteWithoutCompleter(prompt, name, value) ==
  IF EnumOf(prompt.arguments, name) # 0
    THEN LET result == FuseSearch(prompt.arguments[EnumOf(prompt.arguments, name)].enum, value)
         IN  [values |-> result, total |-> Num(Len(result))]
    ELSE [values |-> <<>>]

\* what resourceTemplate.complete(name, value) resolves with in that case
TemplateCompleteWithoutCompleter == [values |-> <<>>]

\* what an application's completer may resolve with or throw
CompleterReturnValues ==
  { [values |-> <<>>],
    [values |-> Values(1), total |-> Num(7), hasMore |-> TRUE],
    [values |-> Values(MaxCompletionValues)],
    [values |-> Values(MaxCompletionValues + 1), total |-> Num(MaxCompletionValues + 1)],
    [values |-> Values(1), total |-> Str("7")],
    [values |-> Values(1), source |-> "cache"],
    [total |-> Num(0)] }

CompleterOutcomes ==
  {Returned(v) : v \in CompleterReturnValues} \cup {Thrown(Err("Error", "boom"))}

\* the handler's tail: parse what complete resolved with and return it
CompleteOutcome(outcome) ==
  IF outcome.settled = "thrown"
    THEN Reject(outcome.value)
    ELSE IF CompletionZodSchema(outcome.value).ok
      THEN Reply([completion |-> CompletionZodSchema(outcome.value).value])
      ELSE Reject(CompletionZodSchema(outcome.value).error)

PromptRef(name) == [type |-> "ref/prompt", name |-> name]
ResourceRef(uri) == [type |-> "ref/resource", uri |-> uri]

CompletionRefs ==
  {PromptRef(name) : name \in {"p", UnknownPromptName}}
  \cup {ResourceRef(uri) : uri \in {[prefix |-> <<"a">>, suffix |-> <<>>],
                                    [prefix |-> <<"b">>, suffix |-> <<>>]}}

CompletionArguments == [name : {"a", "b", "constructor"}, value : {"jap", "zzz"}]

\* this.#resourceTemplates.find((resource) => resource.uriTemplate === ref.uri)
FindTemplateByUri(uri) ==
  LET S == {i \in DOMAIN resourceTemplates : resourceTemplates[i].uriTemplate = uri}
  IN  IF S = {} THEN 0 ELSE CHOOSE i \in S : \A j \in S : i <= j

\* a completion request arrives; the handler runs up to the call of a completer,
\* or to its end when complete resolves without one
CompleteRequest(ref, argument) ==
  /\ Len(requests) < MaxRequests
  /\ LET id == Len(requests) + 1
         i == IF ref.type = "ref/prompt" THEN FindPrompt(ref.name)
                                         ELSE FindTemplateByUri(ref.uri)
         req == [method |-> "completion/complete", ref |-> ref, argument |-> argument,
                 pc |-> "done", target |-> i,
                 outcome |-> Pending, response |-> NoResponse]
     IN  IF i = 0
           THEN /\ requests' = Append(requests, [req EXCEPT !.response =
                       Reject(Err("UnexpectedStateError",
                                  IF ref.type = "ref/prompt" THEN "Unknown prompt"
                                                             ELSE "Unknown resource"))])
                /\ UNCHANGED loadCalls
           ELSE LET target == IF ref.type = "ref/prompt" THEN prompts[i]
                                                         ELSE resourceTemplates[i]
                    c == CompleterOf(target.arguments, argument.name)
                    resolved == IF ref.type = "ref/prompt"
                                  THEN PromptCompleteWithoutCompleter(target, argument.name,
                                                                      argument.value)
                                  ELSE TemplateCompleteWithoutCompleter
                IN  IF c # 0
                      THEN /\ requests' = Append(requests, [req EXCEPT !.pc = "complete"])
                           /\ loadCalls' = Append(loadCalls,
                                  [request |-> id, kind |-> "completer", index |-> i,
                                   argument |-> c, value |-> argument.value])
                      ELSE IF InheritedCompleter(target.arguments, argument.name)
                        THEN LET inherited == InheritedCompleterOutcome(argument.name,
                                                                        argument.value)
                             IN  /\ requests' = Append(requests, [req EXCEPT
                                        !.outcome = inherited,
                                        !.response = CompleteOutcome(inherited)])
                                 /\ UNCHANGED loadCalls
                        ELSE /\ requests' = Append(requests, [req EXCEPT
                                    !.outcome = Returned(resolved),
                                    !.response = CompleteOutcome(Returned(resolved))])
                             /\ UNCHANGED loadCalls
  /\ UNCHANGED <<hostVars, sessionVars, prompts, tools, resources, resourceTemplates, executeCalls>>

\* the application's completer settles
CompleterSettles(r, outcome) ==
  /\ requests[r].method = "completion/complete"
  /\ requests[r].pc = "complete"
  /\ requests' = [requests EXCEPT
       ![r].pc = "done",
       ![r].outcome = outcome,
       ![r].response = CompleteOutcome(outcome)]
  /\ UNCHANGED <<hostVars, sessionVars, prompts, tools, resources, resourceTemplates,
                 executeCalls, loadCalls>>

InitCompletion ==
  /\ SessionConstructed
  /\ HostConstructed
  /\ tools = <<>>
  /\ resources = <<>>
  /\ resourceTemplates \in BoundedSeq(CompletableTemplates, MaxCompletionTargets)
  /\ prompts \in BoundedSeq(CompletablePrompts, MaxCompletionTargets)
  /\ requests = <<>>
  /\ executeCalls = <<>>
  /\ loadCalls = <<>>

NextCompletion ==
  \/ \E ref \in CompletionRefs, argument \in CompletionArguments : CompleteRequest(ref, argument)
  \/ \E r \in DOMAIN requests, outcome \in CompleterOutcomes : CompleterSettles(r, outcome)

SpecCompletion == InitCompletion /\ [][NextCompletion]_vars

----------------------------------------------------------------------------
(* The connection lifecycle: connect, close and the keepalive timer.        *)
(* connect is an async function; it is modelled by one action per stretch   *)
(* of code between two awaits that give way to other callers.  The protocol *)
(* server, the transport, the peer and the timers of the runtime are the    *)
(* environment of the Session.                                              *)

MaxCloses == 2
MaxProbes == 2
MaxListeners == 1

\* while (attempt++ < 10)
MaxAttempts == 10

\* a transport, by what its close() does: release the binding and resolve, or
\* throw with the binding left in place.  A transport's close behaves the same
\* at every call.
Transport(close) == [k |-> "transport", close |-> close]
Transports == {Transport(c) : c \in {"closes", "throws"}}

\* the client capabilities a peer may declare in its initialize request
Capabilities(r) == [k |-> "capabilities", roots |-> r]
ClientCapabilities ==
  { Capabilities(Undefined),
    Capabilities([k |-> "object", listChanged |-> FALSE]),
    Capabilities([k |-> "object", listChanged |-> TRUE]) }

\* this.#clientCapabilities?.roots?.listChanged
RootsDeclared(capabilities) ==
  /\ capabilities.k = "capabilities"
  /\ capabilities.roots.k = "object"

RootsListChanged(capabilities) ==
  /\ capabilities.k = "capabilities"
  /\ capabilities.roots.k = "object"
  /\ capabilities.roots.listChanged

\* what this.#server.listRoots() may settle with
RootLists == {<<"file:///a">>, <<"file:///a", "file:///b">>}
ListRootsOutcomes ==
  {Returned([roots |-> r]) : r \in RootLists}
    \cup {Thrown(McpError("RequestTimeout", "Request timed out"))}

\* if (this.#server.transport) throw new UnexpectedStateError(...)
AlreadyConnected == transport # Undefined

\* connect(transport) is called, with a transport not handed to connect before
Connect(t) ==
  /\ \A c \in DOMAIN connects : connects[c].transport # t
  /\ LET call == [transport |-> t, closesBefore |-> Len(closes), attempt |-> 0,
                  negotiated |-> Undefined, listings |-> 0, listFailed |-> FALSE,
                  initialized |-> FALSE, pc |-> "poll"]
     IN  IF AlreadyConnected
           THEN /\ connects' = Append(connects, [call EXCEPT !.pc = "thrown"])
                /\ UNCHANGED transport
           ELSE \* this.#server.connect(transport) binds the transport and starts it
                /\ connects' = Append(connects, call)
                /\ transport' = t
  /\ UNCHANGED <<peerCapabilities, clientCapabilities, roots, pingInterval, timers,
                 closes, probes, listeners>>
  /\ UNCHANGED <<tools, resources, resourceTemplates, prompts, requests,
                 executeCalls, loadCalls, refetches, rootsChanged, hostVars>>

\* this.#pingInterval = setInterval(...): a new timer, started by connect call c
SetInterval(c) == Append(timers, [running |-> TRUE, connect |-> c])

\* the code of connect after the polling loop, up to its next await or its end,
\* with capabilities the value of this.#clientCapabilities at that point and
\* attempt the number of polls made
AfterNegotiation(c, capabilities, attempt) ==
  IF RootsListChanged(capabilities)
    THEN /\ connects' = [connects EXCEPT
              ![c].attempt = attempt,
              ![c].negotiated = capabilities,
              ![c].listings = @ + 1,
              ![c].pc = "listRoots"]
         /\ UNCHANGED <<pingInterval, timers>>
    ELSE /\ connects' = [connects EXCEPT
              ![c].attempt = attempt,
              ![c].negotiated = capabilities,
              ![c].pc = "connected"]
         /\ timers' = SetInterval(c)
         /\ pingInterval' = Len(timers) + 1

\* the loop stops at a poll that returned capabilities
PollStops(capabilities) == capabilities # Undefined

\* one turn of the polling loop: getClientCapabilities(), then the delay or,
\* when capabilities came back, the rest of connect up to its next await
Poll(c) ==
  /\ connects[c].pc = "poll"
  /\ connects[c].attempt < MaxAttempts
  /\ IF PollStops(peerCapabilities)
       THEN /\ clientCapabilities' = peerCapabilities
            /\ AfterNegotiation(c, peerCapabilities, connects[c].attempt + 1)
       ELSE /\ connects' = [connects EXCEPT ![c].attempt = @ + 1]
            /\ UNCHANGED <<clientCapabilities, pingInterval, timers>>
  /\ UNCHANGED <<transport, peerCapabilities, roots, closes, probes, listeners>>
  /\ UNCHANGED <<tools, resources, resourceTemplates, prompts, requests,
                 executeCalls, loadCalls, refetches, rootsChanged, hostVars>>

\* the loop condition fails after the tenth poll: the rest of connect runs
PollsExhausted(c) ==
  /\ connects[c].pc = "poll"
  /\ connects[c].attempt = MaxAttempts
  /\ AfterNegotiation(c, clientCapabilities, connects[c].attempt)
  /\ UNCHANGED <<transport, peerCapabilities, clientCapabilities, roots, closes,
                 probes, listeners>>
  /\ UNCHANGED <<tools, resources, resourceTemplates, prompts, requests,
                 executeCalls, loadCalls, refetches, rootsChanged, hostVars>>

\* listRoots() settles: the roots are stored or the failure is logged, and the
\* keepalive timer is started
ListRootsSettles(c, outcome) ==
  /\ connects[c].pc = "listRoots"
  /\ transport = Undefined => outcome.settled = "thrown"
  /\ roots' = IF outcome.settled = "returned" THEN outcome.value.roots ELSE roots
  /\ connects' = [connects EXCEPT ![c].pc = "connected",
                                  ![c].listFailed = outcome.settled = "thrown"]
  /\ timers' = SetInterval(c)
  /\ pingInterval' = Len(timers) + 1
  /\ UNCHANGED <<transport, peerCapabilities, clientCapabilities, closes, probes, listeners>>
  /\ UNCHANGED <<tools, resources, resourceTemplates, prompts, requests,
                 executeCalls, loadCalls, refetches, rootsChanged, hostVars>>

\* the peer's initialize request reaches the protocol server, which keeps the
\* capabilities it declares in place of any it kept before.  The peer of a
\* connection initializes once: c is the connect call that bound the transport.
PeerInitialize(capabilities) ==
  /\ transport # Undefined
  /\ \E c \in DOMAIN connects :
       /\ connects[c].transport = transport
       /\ ~connects[c].initialized
       /\ connects' = [connects EXCEPT ![c].initialized = TRUE]
  /\ peerCapabilities' = capabilities
  /\ UNCHANGED <<transport, clientCapabilities, roots, pingInterval, timers,
                 closes, probes, listeners>>
  /\ UNCHANGED <<tools, resources, resourceTemplates, prompts, requests,
                 executeCalls, loadCalls, refetches, rootsChanged, hostVars>>

\* session.on("error", listener)
OnError ==
  /\ listeners < MaxListeners
  /\ listeners' = listeners + 1
  /\ UNCHANGED <<transport, peerCapabilities, clientCapabilities, roots, pingInterval,
                 timers, connects, closes, probes>>
  /\ UNCHANGED <<tools, resources, resourceTemplates, prompts, requests,
                 executeCalls, loadCalls, refetches, rootsChanged, hostVars>>

\* this.emit("error", ...) of an EventEmitter: every listener is called once;
\* with no listener for "error", emit throws
EmitError == [events |-> IF listeners = 0 THEN 0 ELSE 1, raised |-> listeners = 0]

\* a tick of a running keepalive timer: ping() is sent; it fails when the peer
\* does not answer or when no transport is bound
PingTick(t, answered) ==
  /\ Len(probes) < MaxProbes
  /\ timers[t].running
  /\ LET failed == transport = Undefined \/ ~answered
         probe == [timer |-> t, closesBefore |-> Len(closes), failed |-> failed]
     IN  probes' = Append(probes,
           IF failed THEN probe @@ EmitError
                     ELSE probe @@ [events |-> 0, raised |-> FALSE])
  /\ UNCHANGED <<transport, peerCapabilities, clientCapabilities, roots, pingInterval,
                 timers, connects, closes, listeners>>
  /\ UNCHANGED <<tools, resources, resourceTemplates, prompts, requests,
                 executeCalls, loadCalls, refetches, rootsChanged, hostVars>>

\* what close() works on: the timers of the runtime, the Session's handle and
\* the server's transport
Session == [timers |-> timers, pingInterval |-> pingInterval, transport |-> transport]

\* clearInterval(this.#pingInterval) when the handle is set
ClearInterval(session) ==
  IF session.pingInterval # 0
    THEN [session.timers EXCEPT ![session.pingInterval].running = FALSE]
    ELSE session.timers

\* this.#server.close(): nothing without a transport, else the transport's close
ServerCloseFails(session) ==
  session.transport # Undefined /\ session.transport.close = "throws"
ServerCloseReleases(session) ==
  session.transport # Undefined /\ session.transport.close = "closes"

\* whether close() rejects: the failure of the server's close is caught and logged
CloseRaisesWithoutCatch(failed) == failed
CloseRaises(failed) == FALSE

\* the state close() leaves
close(session) ==
  [session EXCEPT
     !.timers = ClearInterval(session),
     !.transport = IF ServerCloseReleases(session) THEN Undefined ELSE @]

\* close() is called
Close ==
  /\ Len(closes) < MaxCloses
  /\ timers' = close(Session).timers
  /\ pingInterval' = close(Session).pingInterval
  /\ transport' = close(Session).transport
  /\ closes' = Append(closes, [failed |-> ServerCloseFails(Session),
                               raised |-> CloseRaises(ServerCloseFails(Session))])
  /\ UNCHANGED <<peerCapabilities, clientCapabilities, roots, connects, probes, listeners>>
  /\ UNCHANGED <<tools, resources, resourceTemplates, prompts, requests,
                 executeCalls, loadCalls, refetches, rootsChanged, hostVars>>

InitLifecycle ==
  /\ SessionConstructed
  /\ HostConstructed
  /\ tools = <<>>
  /\ resources = <<>>
  /\ resourceTemplates = <<>>
  /\ prompts = <<>>
  /\ requests = <<>>
  /\ executeCalls = <<>>
  /\ loadCalls = <<>>

\* connect and close, with the peer
NextLifecycle ==
  \/ \E t \in Transports : Connect(t)
  \/ \E c \in DOMAIN connects : Poll(c)
  \/ \E c \in DOMAIN connects : PollsExhausted(c)
  \/ \E c \in DOMAIN connects, outcome \in ListRootsOutcomes : ListRootsSettles(c, outcome)
  \/ \E capabilities \in ClientCapabilities : PeerInitialize(capabilities)
  \/ Close

SpecLifecycle == InitLifecycle /\ [][NextLifecycle]_vars

\* the same with the ticks of the keepalive timers and the "error" subscribers
NextKeepalive ==
  \/ NextLifecycle
  \/ OnError
  \/ \E t \in DOMAIN timers, answered \in BOOLEAN : PingTick(t, answered)

SpecKeepalive == InitLifecycle /\ [][NextKeepalive]_vars

----------------------------------------------------------------------------
(* The Sessions of one host, each with the state it owns: the logging level *)
(* its client set, the roots and the capabilities it stored                 *)

MaxSessions == 2
MaxSetLevels == 2

\* LoggingLevel of the protocol SDK
LoggingLevels ==
  {"debug", "info", "notice", "warning", "error", "critical", "alert", "emergency"}

\* a FastMCPSession object: #clientCapabilities, #loggingLevel, #roots and
\* #auth, where its connection stands, and how many entities each array held
\* when the constructor read it: it registers a family's handlers if that
\* array was not empty, and copies the prompts and resource templates
Instance(connection, capabilities, r) ==
  [connection |-> connection, clientCapabilities |-> capabilities,
   loggingLevel |-> "info", roots |-> r, auth |-> Undefined,
   constructedWith |-> [tools |-> Len(tools), resources |-> Len(resources),
                        resourceTemplates |-> Len(resourceTemplates),
                        prompts |-> Len(prompts)]]

\* the Sessions a host may hold once they are connected: negotiation has stored
\* capabilities or none, the roots were listed or not
ConnectedInstances ==
  { Instance("open", capabilities, r) :
      capabilities \in {Undefined, Capabilities([k |-> "object", listChanged |-> TRUE])},
      r \in {<<>>, <<"file:///a">>} }

\* this.emit("connect", { session }) / this.emit("disconnect", { session }),
\* with whether the Session was in #sessions when the event was emitted
Event(type, session, pool) ==
  [type |-> type, session |-> session,
   pooled |-> \E i \in DOMAIN pool : pool[i] = session]

\* this.#loggingLevel = request.params.level
SetLoggingLevelOnce(instance, level) ==
  IF instance.loggingLevel = "info" THEN [instance EXCEPT !.loggingLevel = level]
                                    ELSE instance
SetLoggingLevel(instance, level) == [instance EXCEPT !.loggingLevel = level]

\* a logging/setLevel request reaches Session s; the handler answers {}
SetLevelRequest(s, level) ==
  /\ Len(requests) < MaxSetLevels
  /\ instances[s].connection # "closed"
  /\ instances' = [instances EXCEPT ![s] = SetLoggingLevel(instances[s], level)]
  /\ requests' = Append(requests, [method |-> "logging/setLevel", session |-> s,
                                   level |-> level, response |-> Reply(Obj(<<>>))])
  /\ UNCHANGED <<sessions, emitted, notifications, sessionVars, tools, resources, resourceTemplates,
                 prompts, executeCalls, loadCalls>>

\* a host with up to MaxSessions connected Sessions
InitLogging ==
  /\ SessionConstructed
  /\ tools = <<>>
  /\ resources = <<>>
  /\ resourceTemplates = <<>>
  /\ prompts = <<>>
  /\ instances \in BoundedSeq(ConnectedInstances, MaxSessions)
  /\ sessions = [s \in DOMAIN instances |-> s]
  /\ emitted = [s \in DOMAIN instances |-> Event("connect", s, sessions)]
  /\ notifications = <<>>
  /\ requests = <<>>
  /\ executeCalls = <<>>
  /\ loadCalls = <<>>

NextLogging ==
  \E s \in DOMAIN instances, level \in LoggingLevels : SetLevelRequest(s, level)

SpecLogging == InitLogging /\ [][NextLogging]_vars

----------------------------------------------------------------------------
(* The roots-changed notification (setupRootsHandlers): the handler starts  *)
(* listRoots() and returns; the stored roots are replaced, and the          *)
(* "rootsChanged" event is emitted, when the listing settles                *)

MaxNotifications == 2

\* this.#roots = roots.roots
RootsMerged(current, fetched) == current \o fetched
RootsReplaced(current, fetched) == fetched

\* a notifications/roots/list_changed arrives on the bound transport: the
\* handler calls listRoots(), attaches then(...) and returns
RootsListChangedNotification ==
  /\ Len(refetches) < MaxNotifications
  /\ transport # Undefined
  /\ refetches' = Append(refetches, [outcome |-> Pending, handled |-> TRUE])
  /\ UNCHANGED <<transport, peerCapabilities, clientCapabilities, roots, pingInterval,
                 timers, connects, closes, probes, listeners, rootsChanged>>
  /\ UNCHANGED <<tools, resources, resourceTemplates, prompts, requests,
                 executeCalls, loadCalls, hostVars>>

\* the listRoots() of re-fetch n settles.  Fulfilled: the roots are stored and
\* one "rootsChanged" event carries them.  Rejected: nothing is attached to the
\* promise for that case, so nothing is stored and nothing emitted.
RefetchSettles(n, outcome) ==
  /\ refetches[n].outcome = Pending
  /\ transport = Undefined => outcome.settled = "thrown"
  /\ refetches' = [refetches EXCEPT ![n].outcome = outcome]
  /\ IF outcome.settled = "returned"
       THEN /\ roots' = RootsReplaced(roots, outcome.value.roots)
            /\ rootsChanged' = Append(rootsChanged,
                 [refetch |-> n, roots |-> outcome.value.roots, stored |-> roots'])
       ELSE UNCHANGED <<roots, rootsChanged>>
  /\ UNCHANGED <<transport, peerCapabilities, clientCapabilities, pingInterval,
                 timers, connects, closes, probes, listeners>>
  /\ UNCHANGED <<tools, resources, resourceTemplates, prompts, requests,
                 executeCalls, loadCalls, hostVars>>

\* a Session whose connect has completed: the transport is bound, the
\* capabilities the peer declared are stored, the roots were listed if the peer
\* declared roots.listChanged (the listing may have failed), the keepalive runs
InitRoots ==
  /\ HostConstructed
  /\ transport \in Transports
  /\ peerCapabilities \in ClientCapabilities
  /\ clientCapabilities = peerCapabilities
  /\ roots \in IF RootsListChanged(clientCapabilities) THEN {<<>>} \cup RootLists
                                                       ELSE {<<>>}
  /\ connects = <<[transport |-> transport, closesBefore |-> 0, attempt |-> 1,
                   negotiated |-> clientCapabilities,
                   listings |-> IF RootsListChanged(clientCapabilities) THEN 1 ELSE 0,
                   listFailed |-> RootsListChanged(clientCapabilities) /\ roots = <<>>,
                   initialized |-> TRUE, pc |-> "connected"]>>
  /\ timers = <<[running |-> TRUE, connect |-> 1]>>
  /\ pingInterval = 1
  /\ closes = <<>>
  /\ probes = <<>>
  /\ listeners = 0
  /\ refetches = <<>>
  /\ rootsChanged = <<>>
  /\ tools = <<>>
  /\ resources = <<>>
  /\ resourceTemplates = <<>>
  /\ prompts = <<>>
  /\ requests = <<>>
  /\ executeCalls = <<>>
  /\ loadCalls = <<>>

NextRoots ==
  \/ RootsListChangedNotification
  \/ \E n \in DOMAIN refetches, outcome \in ListRootsOutcomes : RefetchSettles(n, outcome)
  \/ Close

SpecRoots == InitRoots /\ [][NextRoots]_vars

----------------------------------------------------------------------------
(* The Session pool of the host (FastMCP.start): #sessions and the          *)
(* "connect" and "disconnect" events.  With the sse transport the HTTP      *)
(* server of startSSEServer is the environment: for each connection it      *)
(* calls createServer, awaits the Session's connect and then calls          *)
(* onConnect, and it calls onClose when the connection closes, which may    *)
(* happen while connect is still negotiating.                               *)

\* what a Session's negotiation may have stored when connect resolves
NegotiatedCapabilities ==
  {Undefined, Capabilities([k |-> "object", listChanged |-> TRUE])}

\* start({ transportType: "stdio" }): a Session is created and connected over
\* the standard streams, pushed onto #sessions and announced
StartStdio(capabilities) ==
  /\ Len(instances) < MaxSessions
  /\ \A s \in DOMAIN instances : instances[s].connection # "stdio"
  /\ instances' = Append(instances, Instance("stdio", capabilities, <<>>))
  /\ sessions' = Append(sessions, Len(instances'))
  /\ emitted' = Append(emitted, Event("connect", Len(instances'), sessions'))
  /\ UNCHANGED <<notifications, sessionVars, tools, resources, resourceTemplates, prompts, requests,
                 executeCalls, loadCalls>>

\* what authenticate(request) may settle with; no authenticate function leaves
\* auth undefined
AuthValues == {Obj([id |-> "alice"]), Obj([id |-> "bob"])}
AuthenticateOutcomes ==
  {Returned(a) : a \in AuthValues \cup {Undefined}} \cup {Thrown(Str("Unauthorized"))}

\* createServer: a connection arrives; authenticate settles; unless it rejected,
\* a FastMCPSession is created for the connection with the auth it returned
CreateServer(authenticated) ==
  /\ Len(instances) < MaxSessions
  /\ instances' =
       IF authenticated.settled = "thrown"
         THEN instances
         ELSE Append(instances, [Instance("connecting", Undefined, <<>>)
                                   EXCEPT !.auth = authenticated.value])
  /\ UNCHANGED <<sessions, emitted, notifications>>
  /\ UNCHANGED <<sessionVars, tools, resources, resourceTemplates, prompts, requests,
                 executeCalls, loadCalls>>

\* onConnect: the Session's connect has resolved on a connection still open
OnConnect(s, capabilities) ==
  /\ instances[s].connection = "connecting"
  /\ instances' = [instances EXCEPT ![s].connection = "open",
                                    ![s].clientCapabilities = capabilities]
  /\ sessions' = Append(sessions, s)
  /\ emitted' = Append(emitted, Event("connect", s, sessions'))
  /\ UNCHANGED <<notifications, sessionVars, tools, resources, resourceTemplates, prompts, requests,
                 executeCalls, loadCalls>>

\* onClose: the connection of Session s has closed
OnClose(s) ==
  /\ instances[s].connection \in {"connecting", "open"}
  /\ instances' = [instances EXCEPT ![s].connection = "closed"]
  /\ emitted' = Append(emitted, Event("disconnect", s, sessions))
  /\ UNCHANGED <<sessions, notifications>>
  /\ UNCHANGED <<sessionVars, tools, resources, resourceTemplates, prompts, requests,
                 executeCalls, loadCalls>>

InitPool ==
  /\ SessionConstructed
  /\ HostConstructed
  /\ tools = <<>>
  /\ resources = <<>>
  /\ resourceTemplates = <<>>
  /\ prompts = <<>>
  /\ requests = <<>>
  /\ executeCalls = <<>>
  /\ loadCalls = <<>>

NextPool ==
  \/ \E capabilities \in NegotiatedCapabilities : StartStdio(capabilities)
  \/ \E authenticated \in AuthenticateOutcomes : CreateServer(authenticated)
  \/ \E s \in DOMAIN instances, capabilities \in NegotiatedCapabilities :
       OnConnect(s, capabilities)
  \/ \E s \in DOMAIN instances : OnClose(s)

SpecPool == InitPool /\ [][NextPool]_vars

----------------------------------------------------------------------------
(* Registration on the host: addTool, addResource, addResourceTemplate and  *)
(* addPrompt push onto the arrays that start() hands to every Session       *)

\* this.#tools.push(tool)
AddTool(tool) ==
  /\ Len(tools) < MaxTools
  /\ tools' = Append(tools, tool)
  /\ UNCHANGED <<resources, resourceTemplates, prompts, requests, executeCalls,
                 loadCalls, sessionVars, hostVars>>

\* this.#resources.push(resource)
AddResource(resource) ==
  /\ Len(resources) < MaxResources + 1
  /\ resources' = Append(resources, resource)
  /\ UNCHANGED <<tools, resourceTemplates, prompts, requests, executeCalls,
                 loadCalls, sessionVars, hostVars>>

\* this.#resourcesTemplates.push(resource)
AddResourceTemplate(resourceTemplate) ==
  /\ Len(resourceTemplates) < MaxTemplates
  /\ resourceTemplates' = Append(resourceTemplates, resourceTemplate)
  /\ UNCHANGED <<tools, resources, prompts, requests, executeCalls,
                 loadCalls, sessionVars, hostVars>>

\* this.#prompts.push(prompt)
AddPrompt(prompt) ==
  /\ Len(prompts) < MaxPrompts
  /\ prompts' = Append(prompts, prompt)
  /\ UNCHANGED <<tools, resources, resourceTemplates, requests, executeCalls,
                 loadCalls, sessionVars, hostVars>>

\* a host just constructed: nothing is registered
InitRegistry ==
  /\ SessionConstructed
  /\ HostConstructed
  /\ tools = <<>>
  /\ resources = <<>>
  /\ resourceTemplates = <<>>
  /\ prompts = <<>>
  /\ requests = <<>>
  /\ executeCalls = <<>>
  /\ loadCalls = <<>>

NextRegistry ==
  \/ \E tool \in Tools : AddTool(tool)
  \/ \E resource \in Resources : AddResource(resource)
  \/ \E resourceTemplate \in ResourceTemplates : AddResourceTemplate(resourceTemplate)
  \/ \E prompt \in Prompts : AddPrompt(prompt)

SpecRegistry == InitRegistry /\ [][NextRegistry]_vars

----------------------------------------------------------------------------
(* The list handlers: list-tools, list-resources, list-resource-templates   *)
(* and list-prompts map the array their set-up function was given           *)

MaxListed == 2

\* toJsonSchema(tool.parameters): the JSON Schema of the declared parameters
ToJsonSchema(parameters) == Obj([type |-> "object", accepts |-> parameters.accepts])

\* the entry of one tool: name and inputSchema
ToolEntry(tool) ==
  [name |-> tool.name,
   inputSchema |-> IF tool.parameters.declared THEN ToJsonSchema(tool.parameters)
                                               ELSE Undefined]

\* tools.map(...), awaited with Promise.all, which keeps the order of the array
ToolEntriesReversed(registry) ==
  [i \in DOMAIN registry |-> ToolEntry(registry[Len(registry) + 1 - i])]
ToolEntries(registry) == [i \in DOMAIN registry |-> ToolEntry(registry[i])]

\* resources.map(...)
ResourceEntries(registry) ==
  [i \in DOMAIN registry |->
     [uri |-> UriString(registry[i].uri), name |-> registry[i].name,
      mimeType |-> registry[i].mimeType]]

\* resourceTemplates.map(...)
ResourceTemplateEntries(registry) ==
  [i \in DOMAIN registry |->
     [name |-> registry[i].name, uriTemplate |-> registry[i].uriTemplate]]

\* prompts.map(...); the prompts handed to the constructor have no complete
PromptEntries(registry) ==
  [i \in DOMAIN registry |->
     [name |-> registry[i].name, description |-> registry[i].description,
      arguments |-> registry[i].arguments, complete |-> Undefined]]

\* the handler of each list request, and whether the constructor registered it
ListMethods == {"tools/list", "resources/list", "resources/templates/list", "prompts/list"}

ListHandlerRegistered(method) ==
  CASE method = "tools/list" -> tools # <<>>
    [] method = "resources/list" -> resources # <<>> \/ resourceTemplates # <<>>
    [] method = "resources/templates/list" -> resourceTemplates # <<>>
    [] method = "prompts/list" -> prompts # <<>>

ListResult(method) ==
  CASE method = "tools/list" -> [tools |-> ToolEntries(tools)]
    [] method = "resources/list" -> [resources |-> ResourceEntries(resources)]
    [] method = "resources/templates/list" ->
         [resourceTemplates |-> ResourceTemplateEntries(resourceTemplates)]
    [] method = "prompts/list" -> [prompts |-> PromptEntries(prompts)]

\* a list request arrives and is answered
ListRequest(method) ==
  /\ Len(requests) < MaxRequests
  /\ requests' = Append(requests,
       [method |-> method,
        response |-> IF ListHandlerRegistered(method) THEN Reply(ListResult(method))
                                                      ELSE MethodNotFoundByProtocol])
  /\ UNCHANGED <<hostVars, sessionVars, prompts, tools, resources, resourceTemplates,
                 executeCalls, loadCalls>>

\* a Session constructed with up to MaxListed registered entities in all
InitLists ==
  /\ SessionConstructed
  /\ HostConstructed
  /\ tools \in BoundedSeq(Tools, MaxListed)
  /\ resources \in BoundedSeq(Resources, MaxListed - Len(tools))
  /\ resourceTemplates \in
       BoundedSeq(ResourceTemplates, MaxListed - Len(tools) - Len(resources))
  /\ prompts \in BoundedSeq(Prompts,
       MaxListed - Len(tools) - Len(resources) - Len(resourceTemplates))
  /\ requests = <<>>
  /\ executeCalls = <<>>
  /\ loadCalls = <<>>

NextLists == \E method \in ListMethods : ListRequest(method)

SpecLists == InitLists /\ [][NextLists]_vars

----------------------------------------------------------------------------
(* Result normalization applied again to what it produced: the envelope a   *)
(* call returned is handed back as the value a tool returns                 *)

MaxContent == 2
MaxNormalizations == 2

\* the content items a tool may put in an envelope, valid or not
ContentItems ==
  { TextContent("a"), TextContent("hi"), ImageOk, ImageBadData,
    [type |-> "audio", data |-> "aGk=", mimeType |-> "audio/wav"] }

\* the objects with a content list a tool may return: with or without isError,
\* and with a key the schema does not declare
EnvelopeValues ==
  UNION { { Obj([content |-> c]),
            Obj([content |-> c, isError |-> TRUE]),
            Obj([content |-> c, isError |-> FALSE]),
            Obj([content |-> c, extra |-> "x"]) } :
          c \in BoundedSeq(ContentItems, MaxContent) }

\* the value is normalized; after the first time, what is normalized is the
\* envelope the normalization before produced
Normalize(r) ==
  /\ Len(requests[r].results) < MaxNormalizations
  /\ requests[r].results # <<>> => requests[r].results[Len(requests[r].results)].ok
  /\ LET v == IF requests[r].results = <<>>
                THEN requests[r].value
                ELSE Obj(requests[r].results[Len(requests[r].results)].value)
     IN  requests' = [requests EXCEPT ![r].results = Append(@, NormalizeResult(v))]
  /\ UNCHANGED <<hostVars, sessionVars, prompts, tools, resources, resourceTemplates,
                 executeCalls, loadCalls>>

\* a value returned by execute, not yet normalized
InitNormalize ==
  /\ SessionConstructed
  /\ HostConstructed
  /\ tools = <<>>
  /\ resources = <<>>
  /\ resourceTemplates = <<>>
  /\ prompts = <<>>
  /\ requests \in {<<[method |-> "normalize", value |-> v, results |-> <<>>]>> :
                     v \in ReturnValues \cup EnvelopeValues}
  /\ executeCalls = <<>>
  /\ loadCalls = <<>>

NextNormalize == \E r \in DOMAIN requests : Normalize(r)

SpecNormalize == InitNormalize /\ [][NextNormalize]_vars

----------------------------------------------------------------------------
(* Tool calls on the Sessions of a host.  Each connection's Session is      *)
(* constructed with the auth that authenticate returned for it.  The        *)
(* protocol layer hands every arriving request to its handler at once, so   *)
(* several calls may be awaiting their execute on one Session.  An execute  *)
(* reports progress through the reportProgress of its own call.             *)

MaxProgress == 3

\* request.params._meta.progressToken: absent, or the token the peer chose
ProgressTokens == {Undefined, Str("t1"), Str("t2")}

\* the notification the reportProgress of execute call c sends:
\* params { ...progress, progressToken }
ProgressOfLatestRequest(c, progress) ==
  [method |-> "notifications/progress",
   session |-> requests[executeCalls[c].request].session, call |-> c,
   progress |-> progress, progressToken |-> requests[Len(requests)].progressToken]
Progress(c, progress) ==
  [method |-> "notifications/progress",
   session |-> requests[executeCalls[c].request].session, call |-> c,
   progress |-> progress, progressToken |-> executeCalls[c].context.progressToken]

\* a call-tool request arrives on the connected Session s
CallToolOn(s, name, progressToken) ==
  /\ instances[s].connection \in {"open", "stdio"}
  /\ CallTool(s, name, NoArgs, progressToken, MaxRequests + 1)

\* the execute of call c, still running, calls reportProgress once more; the
\* notification is written to the transport of the call's Session at once
ReportProgress(c) ==
  /\ Len(notifications) < MaxProgress
  /\ requests[executeCalls[c].request].pc = "execute"
  /\ instances[requests[executeCalls[c].request].session].connection \in {"open", "stdio"}
  /\ executeCalls' = [executeCalls EXCEPT ![c].reported = @ + 1]
  /\ notifications' = Append(notifications, Progress(c, executeCalls[c].reported + 1))
  /\ UNCHANGED <<sessions, instances, emitted, sessionVars, tools, resources,
                 resourceTemplates, prompts, requests, loadCalls>>

\* a host on which one tool is registered, before any connection
InitCalls ==
  /\ SessionConstructed
  /\ HostConstructed
  /\ tools = <<[name |-> "echo", parameters |-> NoSchema]>>
  /\ resources = <<>>
  /\ resourceTemplates = <<>>
  /\ prompts = <<>>
  /\ requests = <<>>
  /\ executeCalls = <<>>
  /\ loadCalls = <<>>

\* connections are accepted and authenticated while tools are being called
NextCalls ==
  \/ \E authenticated \in AuthenticateOutcomes : CreateServer(authenticated)
  \/ \E s \in DOMAIN instances : OnConnect(s, Undefined)
  \/ \E s \in DOMAIN instances : CallToolOn(s, "echo", Undefined)
  \/ \E r \in DOMAIN requests : ExecuteSettles(r, Returned(Str("hi")))

SpecCalls == InitCalls /\ [][NextCalls]_vars

\* a host whose one Session is connected over the standard streams
InitProgress ==
  /\ SessionConstructed
  /\ tools = <<[name |-> "echo", parameters |-> NoSchema]>>
  /\ resources = <<>>
  /\ resourceTemplates = <<>>
  /\ prompts = <<>>
  /\ instances = <<Instance("stdio", Undefined, <<>>)>>
  /\ sessions = <<1>>
  /\ emitted = <<Event("connect", 1, sessions)>>
  /\ notifications = <<>>
  /\ requests = <<>>
  /\ executeCalls = <<>>
  /\ loadCalls = <<>>

\* tool calls arrive on the Session, report progress and settle
NextProgress ==
  \/ \E progressToken \in ProgressTokens : CallToolOn(1, "echo", progressToken)
  \/ \E c \in DOMAIN executeCalls : ReportProgress(c)
  \/ \E r \in DOMAIN requests : ExecuteSettles(r, Returned(Str("hi")))

SpecProgress == InitProgress /\ [][NextProgress]_vars

----------------------------------------------------------------------------
(* Registration on a host that has started: start() hands the host's own    *)
(* arrays to the Session's constructor, and the handlers the constructor    *)
(* registers keep reading those arrays, which addTool, addResource,         *)
(* addResourceTemplate and addPrompt go on pushing to                       *)

\* whether the constructor of Session s registered the handler of a list request
ListHandlerRegisteredOn(s, method) ==
  CASE method = "tools/list" -> instances[s].constructedWith.tools > 0
    [] method = "resources/list" ->
         \/ instances[s].constructedWith.resources > 0
         \/ instances[s].constructedWith.resourceTemplates > 0
    [] method = "resources/templates/list" ->
         /\ \/ instances[s].constructedWith.resources > 0
            \/ instances[s].constructedWith.resourceTemplates > 0
         /\ instances[s].constructedWith.resourceTemplates > 0
    [] method = "prompts/list" -> instances[s].constructedWith.prompts > 0

\* a list request arrives on the connected Session s and is answered
ListRequestOn(s, method) ==
  /\ Len(requests) < MaxRequests
  /\ instances[s].connection \in {"open", "stdio"}
  /\ requests' = Append(requests,
       [method |-> method, session |-> s,
        response |-> IF ListHandlerRegisteredOn(s, method)
                       THEN Reply(ListResult(method))
                       ELSE MethodNotFoundByProtocol])
  /\ UNCHANGED <<hostVars, sessionVars, prompts, tools, resources, resourceTemplates,
                 executeCalls, loadCalls>>

\* a call-tool request arrives on the connected Session s
CallRequestOn(s, name) ==
  /\ instances[s].connection \in {"open", "stdio"}
  /\ CallTool(s, name, NoArgs, Undefined, MaxRequests)

\* the entities the application registers in this study
RegisteredTools == {tool \in Tools : ~tool.parameters.declared}
RegisteredResource == [uri |-> <<"a", "b">>, name |-> "app", mimeType |-> "text/plain"]
RegisteredTemplate ==
  [uriTemplate |-> Pattern(<<"a">>, <<>>), name |-> "logs", mimeType |-> "text/plain"]
RegisteredPrompt == [name |-> "p", description |-> "greets", arguments |-> <<>>]

\* the application registers entities before and after it starts the host on
\* the standard streams; requests arrive on the Session start() created
NextSnapshot ==
  \/ \E tool \in RegisteredTools : AddTool(tool)
  \/ AddResource(RegisteredResource)
  \/ AddResourceTemplate(RegisteredTemplate)
  \/ AddPrompt(RegisteredPrompt)
  \/ StartStdio(Undefined)
  \/ \E s \in DOMAIN instances, method \in ListMethods : ListRequestOn(s, method)
  \/ \E s \in DOMAIN instances, name \in ToolNames : CallRequestOn(s, name)
  \/ \E r \in DOMAIN requests : ExecuteSettles(r, Returned(Str("hi")))

SpecSnapshot == InitRegistry /\ [][NextSnapshot]_vars

----------------------------------------------------------------------------
(* Properties of the call-tool handler, checked under SpecTools *)

IsToolCall(r) == requests[r].method = "tools/call"

ExecuteCallsFor(r) == {i \in DOMAIN executeCalls : executeCalls[i].request = r}

NameRegistered(name) == \E i \in DOMAIN tools : tools[i].name = name

\* the registered tool a name denotes: the first of that name
FirstToolNamed(name) ==
  CHOOSE i \in DOMAIN tools :
    /\ tools[i].name = name
    /\ \A j \in 1..(i - 1) : tools[j].name # name

PassesValidation(tool, arguments) ==
  tool.parameters.declared => arguments \in tool.parameters.accepts

IsMcpError(response, code) ==
  /\ response.type = "error"
  /\ response.error.k = "McpError"
  /\ response.error.code = code

\* execute threw, or the value it returned could not be normalized
ToolFailed(outcome) ==
  \/ outcome.settled = "thrown"
  \/ outcome.settled = "returned" /\ ~NormalizeResult(outcome.value).ok

IsErrorEnvelope(response) ==
  /\ response.type = "result"
  /\ DOMAIN response.result = {"content", "isError"}
  /\ response.result.isError = TRUE
  /\ Len(response.result.content) = 1
  /\ DOMAIN response.result.content[1] = {"type", "text"}
  /\ response.result.content[1].type = "text"

\* C1: whenever a call-tool request reached a registered tool and execute threw
\* (or normalizing its return value threw), the request ends with a successful
\* response that has isError = true and exactly one text content item, never with
\* a protocol-level error.
C1_ToolFailureIsolation ==
  \A r \in DOMAIN requests :
    (IsToolCall(r) /\ requests[r].pc = "done" /\ ToolFailed(requests[r].outcome)) =>
      IsErrorEnvelope(requests[r].response)

\* C2: a call-tool request whose name equals no registered tool's name fails with
\* MethodNotFound, and no execute is invoked for it.
C2_UnknownToolMethodNotFound ==
  \A r \in DOMAIN requests :
    (IsToolCall(r) /\ ~NameRegistered(requests[r].name)) =>
      /\ IsMcpError(requests[r].response, "MethodNotFound")
      /\ ExecuteCallsFor(r) = {}

C2_Witness ==
  \E r \in DOMAIN requests :
    /\ IsToolCall(r)
    /\ tools # <<>>
    /\ ~NameRegistered(requests[r].name)
    /\ IsMcpError(requests[r].response, "MethodNotFound")

\* C3: when the tool a request names declares a parameter schema and the arguments
\* fail its validation, the request fails with InvalidParams and execute is not
\* invoked for it; when the tool declares no schema, execute is invoked whatever the
\* arguments are.
C3_InvalidArgumentsRejected ==
  \A r \in DOMAIN requests :
    (IsToolCall(r) /\ NameRegistered(requests[r].name)) =>
      LET tool == tools[FirstToolNamed(requests[r].name)]
      IN  /\ (tool.parameters.declared
                /\ requests[r].arguments \notin tool.parameters.accepts) =>
                /\ IsMcpError(requests[r].response, "InvalidParams")
                /\ ExecuteCallsFor(r) = {}
          /\ ~tool.parameters.declared =>
                /\ Cardinality(ExecuteCallsFor(r)) = 1
                /\ ~IsMcpError(requests[r].response, "InvalidParams")

C3_Witness ==
  \E r \in DOMAIN requests :
    /\ IsToolCall(r)
    /\ NameRegistered(requests[r].name)
    /\ tools[FirstToolNamed(requests[r].name)].parameters.declared
    /\ requests[r].arguments \notin tools[FirstToolNamed(requests[r].name)].parameters.accepts
    /\ IsMcpError(requests[r].response, "InvalidParams")

\* C4: for a call-tool request that names a registered tool and passes validation,
\* execute is invoked exactly once, on the tool of that name, and on no other tool;
\* no request has execute invoked more than once, and a request has a response
\* exactly when its handler has ended.
C4_ExactlyOnceDispatch ==
  /\ \A i \in DOMAIN executeCalls : executeCalls[i].request \in DOMAIN requests
  /\ \A r \in DOMAIN requests :
       IsToolCall(r) =>
         /\ Cardinality(ExecuteCallsFor(r)) <= 1
         /\ (requests[r].pc = "done") <=> (requests[r].response.type \in {"result", "error"})
         /\ (requests[r].pc # "done") <=> (requests[r].response = NoResponse)
         /\ (NameRegistered(requests[r].name)
               /\ PassesValidation(tools[FirstToolNamed(requests[r].name)],
                                   requests[r].arguments)) =>
              /\ Cardinality(ExecuteCallsFor(r)) = 1
              /\ \A i \in ExecuteCallsFor(r) :
                   /\ executeCalls[i].tool = FirstToolNamed(requests[r].name)
                   /\ tools[executeCalls[i].tool].name = requests[r].name

C4_Witness ==
  \E r \in DOMAIN requests :
    /\ IsToolCall(r)
    /\ Len(tools) = 2
    /\ tools[1].name # tools[2].name
    /\ requests[r].name = tools[2].name
    /\ requests[r].pc = "done"
    /\ requests[r].response.type = "result"
    /\ ExecuteCallsFor(r) # {}

IsContentItem(c) ==
  \/ DOMAIN c = {"type", "text"} /\ c.type = "text"
  \/ DOMAIN c = {"type", "data", "mimeType"} /\ c.type = "image" /\ IsBase64(c.data)

IsEnvelope(o) ==
  /\ DOMAIN o \in {{"content"}, {"content", "isError"}}
  /\ \A i \in DOMAIN o.content : IsContentItem(o.content[i])

\* C6: whatever execute returns, the response is an envelope; a string s gives
\* {content: [{type: "text", text: s}]} without isError, a single content item c
\* gives {content: [c]}, and an envelope gives the same content list and the same
\* isError.
C6_ResultNormalization ==
  \A r \in DOMAIN requests :
    (IsToolCall(r) /\ requests[r].pc = "done"
       /\ requests[r].outcome.settled = "returned") =>
      LET v == requests[r].outcome.value
          response == requests[r].response
      IN  /\ response.type = "result"
          /\ IsEnvelope(response.result)
          /\ v.k = "string" =>
               response.result = [content |-> <<[type |-> "text", text |-> v.str]>>]
          /\ (v.k = "object" /\ "type" \in DOMAIN v.obj /\ IsContentItem(v.obj)) =>
               response.result = [content |-> <<v.obj>>]
          /\ (v.k = "object" /\ "content" \in DOMAIN v.obj /\ IsEnvelope(v.obj)) =>
               /\ response.result.content = v.obj.content
               /\ DOMAIN response.result = DOMAIN v.obj
               /\ "isError" \in DOMAIN v.obj =>
                    response.result.isError = v.obj.isError

C6_Witness ==
  \E r \in DOMAIN requests :
    /\ IsToolCall(r)
    /\ requests[r].outcome
         = Returned(Obj([content |-> <<ImageOk, TextContent("a")>>, isError |-> FALSE]))
    /\ requests[r].response
         = Reply([content |-> <<ImageOk, TextContent("a")>>, isError |-> FALSE])

----------------------------------------------------------------------------
(* Properties of the read-resource handler, checked under SpecResources *)

IsRead(r) == requests[r].method = "resources/read"

LoadCallsFor(r) == {i \in DOMAIN loadCalls : loadCalls[i].request = r}

StaticRegistered(uri) == \E i \in DOMAIN resources : resources[i].uri = uri

\* a pattern matches a uri when the uri is its literal parts around some value
ExtractedValue(pattern, uri) ==
  SubSeq(uri, Len(pattern.prefix) + 1, Len(uri) - Len(pattern.suffix))

Matches(pattern, uri) ==
  /\ Len(pattern.prefix) + Len(pattern.suffix) <= Len(uri)
  /\ uri = pattern.prefix \o ExtractedValue(pattern, uri) \o pattern.suffix

TemplateMatches(i, uri) == Matches(resourceTemplates[i].uriTemplate, uri)

SomeTemplateMatches(uri) == \E i \in DOMAIN resourceTemplates : TemplateMatches(i, uri)

\* the earliest-registered template that matches
EarliestMatching(uri) ==
  CHOOSE i \in DOMAIN resourceTemplates :
    /\ TemplateMatches(i, uri)
    /\ \A j \in 1..(i - 1) : ~TemplateMatches(j, uri)

\* C7: a read-resource request whose URI equals the uri of a registered static
\* resource invokes that resource's load, once, and no template's load, whatever
\* templates are registered and whether or not one of them matches the URI.
C7_StaticResourceFirst ==
  \A r \in DOMAIN requests :
    (IsRead(r) /\ StaticRegistered(requests[r].uri)) =>
      /\ Cardinality(LoadCallsFor(r)) = 1
      /\ \A i \in LoadCallsFor(r) :
           /\ loadCalls[i].kind = "resource"
           /\ resources[loadCalls[i].index].uri = requests[r].uri

C7_Witness ==
  \E r \in DOMAIN requests :
    /\ IsRead(r)
    /\ StaticRegistered(requests[r].uri)
    /\ Len(resourceTemplates) = 2
    /\ \A i \in DOMAIN resourceTemplates : TemplateMatches(i, requests[r].uri)
    /\ requests[r].pc = "done"
    /\ requests[r].response.type = "result"
    /\ \E i \in LoadCallsFor(r) : loadCalls[i].kind = "resource"

\* the load of the earliest-registered matching template, and no other load, is
\* invoked for request r, once, with the variables extracted from the URI
EarliestTemplateLoaded(r) ==
  LET t == EarliestMatching(requests[r].uri)
  IN  /\ Cardinality(LoadCallsFor(r)) = 1
      /\ \A i \in LoadCallsFor(r) :
           /\ loadCalls[i].kind = "template"
           /\ loadCalls[i].index = t
           /\ loadCalls[i].vars =
                [name |-> ExtractedValue(resourceTemplates[t].uriTemplate, requests[r].uri)]

ResolvesToTemplate(r) ==
  /\ IsRead(r)
  /\ ~StaticRegistered(requests[r].uri)
  /\ SomeTemplateMatches(requests[r].uri)

\* C8, as claimed: a read-resource request whose URI matches no static resource
\* but matches registered templates invokes the load of the earliest-registered
\* matching template exactly once with the extracted variables and no later
\* template's load, and the single returned content item carries that template's
\* name and mimeType.
C8_FirstTemplateTagged ==
  \A r \in DOMAIN requests :
    ResolvesToTemplate(r) =>
      LET t == resourceTemplates[EarliestMatching(requests[r].uri)]
      IN  /\ EarliestTemplateLoaded(r)
          /\ requests[r].response.type = "result" =>
               /\ Len(requests[r].response.result.contents) = 1
               /\ requests[r].response.result.contents[1].name = t.name
               /\ requests[r].response.result.contents[1].mimeType = t.mimeType

\* C8, amended: as above, but the single returned content item is the template's
\* name and mimeType merged with the load result: it carries the result's own
\* name or mimeType where the result has that key, and the template's otherwise.
C8_FirstTemplateMerged ==
  \A r \in DOMAIN requests :
    ResolvesToTemplate(r) =>
      LET t == resourceTemplates[EarliestMatching(requests[r].uri)]
      IN  /\ EarliestTemplateLoaded(r)
          /\ requests[r].response.type = "result" =>
               LET result == requests[r].outcome.value.obj
                   item == requests[r].response.result.contents[1]
               IN  /\ Len(requests[r].response.result.contents) = 1
                   /\ item.name = IF "name" \in DOMAIN result THEN result.name ELSE t.name
                   /\ item.mimeType = IF "mimeType" \in DOMAIN result
                                        THEN result.mimeType ELSE t.mimeType
                   /\ \A key \in DOMAIN result : item[key] = result[key]

C8_Witness ==
  \E r \in DOMAIN requests :
    /\ ResolvesToTemplate(r)
    /\ Len(resourceTemplates) = 2
    /\ \A i \in DOMAIN resourceTemplates : TemplateMatches(i, requests[r].uri)
    /\ resourceTemplates[1].name # resourceTemplates[2].name
    /\ requests[r].pc = "done"
    /\ requests[r].response.type = "result"
    /\ requests[r].response.result.contents[1].name = resourceTemplates[1].name

\* C9: a read-resource request whose URI equals no static resource uri and
\* matches no registered template fails with MethodNotFound, and no load is
\* invoked for it.
C9_UnknownResourceMethodNotFound ==
  \A r \in DOMAIN requests :
    (IsRead(r) /\ ~StaticRegistered(requests[r].uri)
       /\ ~SomeTemplateMatches(requests[r].uri)) =>
      /\ IsMcpError(requests[r].response, "MethodNotFound")
      /\ LoadCallsFor(r) = {}

C9_Witness ==
  \E r \in DOMAIN requests :
    /\ IsRead(r)
    /\ resources # <<>>
    /\ resourceTemplates # <<>>
    /\ ~StaticRegistered(requests[r].uri)
    /\ ~SomeTemplateMatches(requests[r].uri)
    /\ IsMcpError(requests[r].response, "MethodNotFound")

\* C10: when a read-resource request resolves to a static resource and that
\* resource's load throws, the request fails with InternalError whose data
\* carries the resource's URI.
C10_StaticLoadFailure ==
  \A r \in DOMAIN requests :
    (IsRead(r) /\ StaticRegistered(requests[r].uri)
       /\ requests[r].pc = "done"
       /\ requests[r].outcome.settled = "thrown") =>
      /\ IsMcpError(requests[r].response, "InternalError")
      /\ "data" \in DOMAIN requests[r].response.error
      /\ requests[r].response.error.data = [uri |-> requests[r].uri]

\* C11: when a read-resource request resolves to a resource template and that
\* template's load throws, the request fails with InternalError whose data
\* carries the requested URI, as it does for a static resource.
C11_TemplateLoadFailure ==
  \A r \in DOMAIN requests :
    (IsRead(r) /\ requests[r].template # 0
       /\ requests[r].pc = "done"
       /\ requests[r].outcome.settled = "thrown") =>
      /\ IsMcpError(requests[r].response, "InternalError")
      /\ "data" \in DOMAIN requests[r].response.error
      /\ requests[r].response.error.data = [uri |-> requests[r].uri]

\* the entries a static resource's load returned for request r: those of the
\* list, or the single result
LoadedEntries(r) ==
  IF requests[r].outcome.value.k = "array"
    THEN requests[r].outcome.value.items
    ELSE <<requests[r].outcome.value.obj>>

StaticReadAnswered(r) ==
  /\ IsRead(r)
  /\ StaticRegistered(requests[r].uri)
  /\ requests[r].outcome.settled = "returned"

\* C28, as claimed: when a static resource's load returns n entries the read
\* response has n content items in the same order, each carrying the
\* resource's own uri, name and mimeType whatever the entry contains; a
\* single result yields one such item.
C28_EntriesStamped ==
  \A r \in DOMAIN requests :
    StaticReadAnswered(r) =>
      LET resource == resources[requests[r].resource]
          contents == requests[r].response.result.contents
      IN  /\ requests[r].response.type = "result"
          /\ Len(contents) = Len(LoadedEntries(r))
          /\ \A i \in DOMAIN contents :
               /\ \A key \in DOMAIN LoadedEntries(r)[i] \ {"uri", "name", "mimeType"} :
                    contents[i][key] = LoadedEntries(r)[i][key]
               /\ contents[i].uri = resource.uri
               /\ contents[i].name = resource.name
               /\ contents[i].mimeType = resource.mimeType

\* C28, amended: when a static resource's load returns n entries the read
\* response has n content items in the same order, the i-th item being the
\* i-th entry with the resource's uri, name and mimeType for the keys the
\* entry does not have itself; a key the entry has keeps the entry's value.
\* A single result yields one such item.
C28_EntriesMerged ==
  \A r \in DOMAIN requests :
    StaticReadAnswered(r) =>
      LET resource == resources[requests[r].resource]
          contents == requests[r].response.result.contents
      IN  /\ requests[r].response.type = "result"
          /\ Len(contents) = Len(LoadedEntries(r))
          /\ \A i \in DOMAIN contents :
               LET entry == LoadedEntries(r)[i]
               IN  /\ \A key \in DOMAIN entry : contents[i][key] = entry[key]
                   /\ "uri" \notin DOMAIN entry => contents[i].uri = resource.uri
                   /\ "name" \notin DOMAIN entry => contents[i].name = resource.name
                   /\ "mimeType" \notin DOMAIN entry =>
                        contents[i].mimeType = resource.mimeType

\* a load returned two entries, the first with a name and mimeType of its own:
\* the first item carries the entry's, the second the resource's
C28_Witness ==
  \E r \in DOMAIN requests :
    /\ StaticReadAnswered(r)
    /\ Len(LoadedEntries(r)) = 2
    /\ "name" \in DOMAIN LoadedEntries(r)[1]
    /\ Len(requests[r].response.result.contents) = 2
    /\ requests[r].response.result.contents[1].name = "own"
    /\ requests[r].response.result.contents[2].name =
         resources[requests[r].resource].name
    /\ requests[r].response.result.contents[2].blob = "aGk="

----------------------------------------------------------------------------
(* Properties of the get-prompt handler, checked under SpecPrompts *)

IsGetPrompt(r) == requests[r].method = "prompts/get"

PromptRegistered(name) == \E i \in DOMAIN prompts : prompts[i].name = name

\* the prompt a name designates: the earliest-registered one with that name
FirstPromptNamed(name) ==
  CHOOSE i \in DOMAIN prompts :
    /\ prompts[i].name = name
    /\ \A j \in 1..(i - 1) : prompts[j].name # name

\* the argument map of request r carries key name
Supplied(r, name) ==
  /\ requests[r].arguments.k = "object"
  /\ name \in DOMAIN requests[r].arguments.obj

\* the required arguments of prompt p that request r does not supply
MissingRequired(r, p) ==
  {i \in DOMAIN prompts[p].arguments :
     prompts[p].arguments[i].required /\ ~Supplied(r, prompts[p].arguments[i].name)}

\* C12: a get-prompt request invokes the prompt's load only if the name is
\* registered and every required argument is present in the supplied argument
\* map; an unregistered name fails with MethodNotFound, a missing required
\* argument with InvalidRequest naming the first missing one, and in both cases
\* load is never invoked.
C12_GetPromptGuards ==
  \A r \in DOMAIN requests :
    IsGetPrompt(r) =>
      /\ (LoadCallsFor(r) # {}) =>
           /\ PromptRegistered(requests[r].name)
           /\ MissingRequired(r, FirstPromptNamed(requests[r].name)) = {}
      /\ ~PromptRegistered(requests[r].name) =>
           /\ IsMcpError(requests[r].response, "MethodNotFound")
           /\ LoadCallsFor(r) = {}
      /\ (PromptRegistered(requests[r].name)
            /\ MissingRequired(r, FirstPromptNamed(requests[r].name)) # {}) =>
           LET p == FirstPromptNamed(requests[r].name)
               m == CHOOSE i \in MissingRequired(r, p) :
                      \A j \in MissingRequired(r, p) : i <= j
           IN  /\ IsMcpError(requests[r].response, "InvalidRequest")
               /\ requests[r].response.error.message =
                    "Missing required argument: " \o prompts[p].arguments[m].name
               /\ LoadCallsFor(r) = {}

----------------------------------------------------------------------------
(* Properties of the completion handler, checked under SpecCompletion *)

IsComplete(r) == requests[r].method = "completion/complete"

\* C13: every successful completion response carries at most 100 values; what a
\* completer or an enum search resolved with more than 100 values is never
\* returned to the client as a successful completion.
C13_AtMost100Values ==
  \A r \in DOMAIN requests :
    IsComplete(r) =>
      /\ requests[r].response.type = "result" =>
           Len(requests[r].response.result.completion.values) <= 100
      /\ (requests[r].pc = "done"
            /\ requests[r].outcome.settled = "returned"
            /\ "values" \in DOMAIN requests[r].outcome.value
            /\ Len(requests[r].outcome.value.values) > 100) =>
           requests[r].response.type = "error"

\* a prompt argument's enum search resolved with 101 values and the request failed
C13_Witness ==
  \E r \in DOMAIN requests :
    /\ IsComplete(r)
    /\ requests[r].pc = "done"
    /\ LoadCallsFor(r) = {}
    /\ requests[r].outcome.settled = "returned"
    /\ "values" \in DOMAIN requests[r].outcome.value
    /\ Len(requests[r].outcome.value.values) = 101
    /\ requests[r].response.type = "error"

\* the declaration of the argument r names, in the target of r; 0 if none
DeclaredArgument(r, arguments) ==
  LET S == {i \in DOMAIN arguments : arguments[i].name = requests[r].argument.name}
  IN  IF S = {} THEN 0 ELSE CHOOSE i \in S : TRUE

\* the completer calls made for request r
CompleterCallsFor(r) ==
  {i \in DOMAIN loadCalls : loadCalls[i].request = r /\ loadCalls[i].kind = "completer"}

\* what the enum search is to resolve with: the members matching the partial
\* value, and their number as total
EnumResolution(enum, value) ==
  LET matching == SelectSeq(enum, LAMBDA item : FuseMatch(item, value))
  IN  [values |-> matching, total |-> Num(Len(matching))]

\* C29: completion for a prompt argument resolves in a fixed order.  With an
\* explicit completer, the completer is called and its result is used, the
\* enum set being ignored; otherwise, with an enum set, the values are the
\* members matching the partial value and total is their number; otherwise
\* the result is an empty value list.  For a resource template, an argument
\* with a completer delegates to it and any other yields an empty value list.
C29_CompletionOrder ==
  \A r \in DOMAIN requests :
    (IsComplete(r) /\ requests[r].target # 0) =>
      LET arguments == IF requests[r].ref.type = "ref/prompt"
                         THEN prompts[requests[r].target].arguments
                         ELSE resourceTemplates[requests[r].target].arguments
          a == DeclaredArgument(r, arguments)
      IN  IF a # 0 /\ arguments[a].complete
            THEN /\ Cardinality(CompleterCallsFor(r)) = 1
                 /\ \A i \in CompleterCallsFor(r) :
                      /\ loadCalls[i].argument = a
                      /\ loadCalls[i].value = requests[r].argument.value
                 /\ requests[r].pc = "done" =>
                      requests[r].response = CompleteOutcome(requests[r].outcome)
            ELSE /\ CompleterCallsFor(r) = {}
                 /\ requests[r].outcome =
                      IF /\ requests[r].ref.type = "ref/prompt"
                         /\ a # 0
                         /\ arguments[a].enum # NoEnum
                        THEN Returned(EnumResolution(arguments[a].enum,
                                                     requests[r].argument.value))
                        ELSE Returned([values |-> <<>>])

----------------------------------------------------------------------------
(* Properties of connect, close and the keepalive timer, checked under       *)
(* SpecLifecycle and, where probes matter, under SpecKeepalive               *)

RunningTimers == {t \in DOMAIN timers : timers[t].running}

\* this step is a call of connect
ConnectCalled == Len(connects') = Len(connects) + 1

\* connect call c has left its polling loop
NegotiationEnded(c) == connects[c].pc \in {"listRoots", "connected"}

\* the client declared roots with listChanged set
DeclaresListChanged(capabilities) ==
  capabilities = [k |-> "capabilities", roots |-> [k |-> "object", listChanged |-> TRUE]]

\* C14: connect on a Session that already holds a transport fails with the
\* already-connected error and changes nothing (transport, client capabilities,
\* roots, keepalive timer), no second keepalive timer is started, and so a
\* Session never has more than one keepalive timer running.
C14_ConnectWhileConnected ==
  /\ [][(ConnectCalled /\ transport # Undefined) =>
          /\ connects'[Len(connects')].pc = "thrown"
          /\ UNCHANGED <<transport, clientCapabilities, roots, pingInterval, timers>>]_vars
  /\ [](Cardinality(RunningTimers) <= 1)

\* C15: Closed is terminal: once close() has been called, no later connect()
\* binds a transport, starts negotiating or starts a keepalive timer.
C15_ClosedIsTerminal ==
  \A c \in DOMAIN connects :
    connects[c].closesBefore > 0 => connects[c].pc = "thrown"

\* C16: after close() has returned the keepalive timer is not running and no
\* further probe is sent, whether close() was called before connect, while
\* connect was negotiating or listing roots, or once Active.
C16_NoKeepaliveAfterClose ==
  /\ closes # <<>> => RunningTimers = {}
  /\ \A p \in DOMAIN probes : probes[p].closesBefore = 0

C18_BoundedCapabilityDiscovery ==
  /\ [](\A c \in DOMAIN connects : connects[c].attempt <= 10)
  /\ [][\A c \in DOMAIN connects :
          (connects[c].pc = "poll" /\ connects'[c].attempt = connects[c].attempt + 1) =>
             IF peerCapabilities # Undefined
               THEN /\ connects'[c].pc # "poll"
                    /\ clientCapabilities' = peerCapabilities
               ELSE /\ connects'[c].pc = "poll"
                    /\ UNCHANGED clientCapabilities]_vars
  /\ [][\A c \in DOMAIN connects :
          (connects[c].pc = "poll" /\ connects[c].attempt = 10 /\ connects'[c].pc # "poll") =>
             /\ clientCapabilities' = Undefined
             /\ connects'[c].listings = 0
             /\ connects'[c].pc = "connected"
             /\ Len(timers') = Len(timers) + 1
             /\ timers'[Len(timers')].running]_vars

\* C19: during connect the roots listing is requested exactly once if the
\* negotiated client capabilities declare roots.listChanged and never
\* otherwise, and only after negotiation has ended; if the listing fails the
\* roots keep their previous value, connect still completes and the keepalive
\* timer is still started.
C19_RootsListedOnce ==
  /\ [](\A c \in DOMAIN connects :
          /\ ~NegotiationEnded(c) => connects[c].listings = 0
          /\ NegotiationEnded(c) =>
               IF DeclaresListChanged(connects[c].negotiated)
                 THEN connects[c].listings = 1
                 ELSE connects[c].listings = 0)
  /\ [][\A c \in DOMAIN connects :
          (connects[c].pc = "poll" /\ connects'[c].pc # "poll") =>
             connects'[c].negotiated = clientCapabilities']_vars
  /\ [][\A c \in DOMAIN connects :
          (connects[c].pc = "listRoots" /\ connects'[c].pc # "listRoots") =>
             /\ connects'[c].listFailed => roots' = roots
             /\ connects'[c].pc = "connected"
             /\ Len(timers') = Len(timers) + 1
             /\ timers'[Len(timers')].running
             /\ pingInterval' = Len(timers')]_vars

\* a second connect listed the roots after the first had stored some; the
\* listing failed, the roots are the earlier ones, the call completed and its
\* keepalive timer runs
C19_Witness ==
  \E c \in DOMAIN connects :
    /\ connects[c].pc = "connected"
    /\ connects[c].listings = 1
    /\ connects[c].listFailed
    /\ roots # <<>>
    /\ \E t \in RunningTimers : timers[t].connect = c /\ pingInterval = t

\* C20: the keepalive starts only after negotiation has ended, and a failed
\* probe is handled inside the Session: it gives exactly one error event, with
\* any number of subscribers or none, and is never raised out of the Session.
C20_FailedProbeContained ==
  /\ \A t \in DOMAIN timers : NegotiationEnded(timers[t].connect)
  /\ \A p \in DOMAIN probes :
       probes[p].failed => (probes[p].events = 1 /\ ~probes[p].raised)

\* C21: clientCapabilities is set at most once.  It is absent until a
\* negotiation has succeeded, and what a negotiation stored is what the field
\* holds ever after: no later request, notification, probe, close or connect
\* changes it.
C21_CapabilitiesSetOnce ==
  /\ (\A c \in DOMAIN connects : connects[c].negotiated = Undefined) =>
        clientCapabilities = Undefined
  /\ \A c \in DOMAIN connects :
        connects[c].negotiated # Undefined =>
          clientCapabilities = connects[c].negotiated

----------------------------------------------------------------------------
(* Properties of the Sessions of a host, checked under SpecLogging *)

IsSetLevel(r) == requests[r].method = "logging/setLevel"

\* the set-level requests Session s has received, in order of arrival
SetLevelsOf(s) == SelectSeq(requests, LAMBDA q : q.session = s)

\* C22: set-logging-level is always accepted and affects only the receiving
\* Session's loggingLevel: a Session's level is the level of the last request
\* it received (info before any), and a request leaves the roots and the
\* capabilities of its Session, and the level, roots and capabilities of
\* every other Session, as they were.
C22_SetLevelFrame ==
  /\ [](\A r \in DOMAIN requests :
          IsSetLevel(r) => requests[r].response = Reply(Obj(<<>>)))
  /\ [](\A s \in DOMAIN instances :
          instances[s].loggingLevel =
            IF SetLevelsOf(s) = <<>> THEN "info"
            ELSE SetLevelsOf(s)[Len(SetLevelsOf(s))].level)
  /\ [][(/\ Len(requests') = Len(requests) + 1
        /\ requests'[Len(requests')].method = "logging/setLevel") =>
          /\ DOMAIN instances' = DOMAIN instances
          /\ \A s \in DOMAIN instances :
               /\ instances'[s].roots = instances[s].roots
               /\ instances'[s].clientCapabilities = instances[s].clientCapabilities
               /\ s # requests'[Len(requests')].session =>
                    instances'[s].loggingLevel = instances[s].loggingLevel]_vars

\* two Sessions with different roots and capabilities; one was sent two levels
\* and holds the second, the other was sent none and is still at info
C22_Witness ==
  \E s, o \in DOMAIN instances :
    /\ Len(SetLevelsOf(s)) = 2
    /\ SetLevelsOf(s)[1].level # SetLevelsOf(s)[2].level
    /\ SetLevelsOf(s)[2].level = "info"
    /\ instances[s].loggingLevel = "info"
    /\ SetLevelsOf(o) = <<>>
    /\ instances[o].roots # instances[s].roots
    /\ instances[o].clientCapabilities # instances[s].clientCapabilities

----------------------------------------------------------------------------
(* Properties of the roots-changed notification, checked under SpecRoots *)

\* the "rootsChanged" events emitted for re-fetch n
EventsOf(n) == {e \in DOMAIN rootsChanged : rootsChanged[e].refetch = n}

\* C23: for every roots-changed notification whose re-fetch succeeds, the
\* stored roots are replaced by the fetched list and exactly one rootsChanged
\* event carrying that list is emitted, the stored roots being the payload at
\* that moment; a re-fetch that is pending or failed has emitted nothing; and
\* the notification handler has returned whether or not the re-fetch settled.
C23_RootsChangedEvent ==
  \A n \in DOMAIN refetches :
    /\ refetches[n].handled
    /\ IF refetches[n].outcome.settled = "returned"
         THEN /\ Cardinality(EventsOf(n)) = 1
              /\ \A e \in EventsOf(n) :
                   /\ rootsChanged[e].roots = refetches[n].outcome.value.roots
                   /\ rootsChanged[e].stored = rootsChanged[e].roots
         ELSE EventsOf(n) = {}

\* the second notification's re-fetch succeeded, replacing roots that were not
\* empty, and its event was emitted, while the first notification, whose
\* handler returned, still has its re-fetch pending
C23_Witness ==
  /\ Len(refetches) = 2
  /\ refetches[1].outcome = Pending
  /\ refetches[1].handled
  /\ refetches[2].outcome.settled = "returned"
  /\ Len(rootsChanged) = 1
  /\ rootsChanged[1].refetch = 2
  /\ rootsChanged[1].roots = <<"file:///a", "file:///b">>
  /\ roots = rootsChanged[1].roots
  /\ connects[1].listings = 1 /\ ~connects[1].listFailed

----------------------------------------------------------------------------
(* Properties of the Session pool, checked under SpecPool *)

Pooled(s) == \E i \in DOMAIN sessions : sessions[i] = s

EventsFor(type, s) ==
  {e \in DOMAIN emitted : emitted[e].type = type /\ emitted[e].session = s}

\* C24: the pool holds only active Sessions.  A Session whose connection was
\* accepted is in the pool, a Session in the pool has its connection open, and
\* a Session for which a disconnect event was emitted is no longer in the pool.
C24_PoolHoldsActiveSessions ==
  /\ \A s \in DOMAIN instances :
       instances[s].connection \in {"open", "stdio"} => Pooled(s)
  /\ \A i \in DOMAIN sessions :
       instances[sessions[i]].connection \in {"open", "stdio"}
  /\ \A s \in DOMAIN instances : EventsFor("disconnect", s) # {} => ~Pooled(s)

\* C25: each accepted connection yields one Session, appended to the pool once
\* and announced by one connect event emitted with the Session already in the
\* pool; a disconnect event is emitted only for a Session announced by an
\* earlier connect event, and at most once per Session.
C25_ConnectDisconnectEvents ==
  /\ \A i, j \in DOMAIN sessions : sessions[i] = sessions[j] => i = j
  /\ \A s \in DOMAIN instances :
       /\ Cardinality(EventsFor("connect", s)) = IF Pooled(s) THEN 1 ELSE 0
       /\ instances[s].connection \in {"open", "stdio"} => Pooled(s)
       /\ \A e \in EventsFor("connect", s) : emitted[e].pooled
       /\ Cardinality(EventsFor("disconnect", s)) <= 1
       /\ \A d \in EventsFor("disconnect", s) :
            \E e \in EventsFor("connect", s) : e < d

----------------------------------------------------------------------------
(* Properties of registration, checked under SpecRegistry *)

\* C26: after any sequence of addTool, addResource, addResourceTemplate and
\* addPrompt calls the keys are unique within each collection: no two tools
\* share a name, no two resources a uri, no two templates a uriTemplate, no
\* two prompts a name.
C26_UniqueKeys ==
  /\ \A i, j \in DOMAIN tools : tools[i].name = tools[j].name => i = j
  /\ \A i, j \in DOMAIN resources : resources[i].uri = resources[j].uri => i = j
  /\ \A i, j \in DOMAIN resourceTemplates :
       resourceTemplates[i].uriTemplate = resourceTemplates[j].uriTemplate => i = j
  /\ \A i, j \in DOMAIN prompts : prompts[i].name = prompts[j].name => i = j

----------------------------------------------------------------------------
(* Properties of the list handlers, checked under SpecLists *)

ListedAs(r, method) ==
  requests[r].method = method /\ requests[r].response.type = "result"

\* C27: list responses preserve registration order.  Each of the four list
\* responses has exactly one entry per registered entity of its kind, the
\* i-th entry being that of the i-th registered entity.
C27_ListsInRegistrationOrder ==
  \A r \in DOMAIN requests :
    /\ ListedAs(r, "tools/list") =>
         LET listed == requests[r].response.result.tools
         IN  /\ Len(listed) = Len(tools)
             /\ \A i \in DOMAIN tools :
                  /\ listed[i].name = tools[i].name
                  /\ (listed[i].inputSchema = Undefined) = ~tools[i].parameters.declared
    /\ ListedAs(r, "resources/list") =>
         LET listed == requests[r].response.result.resources
         IN  /\ Len(listed) = Len(resources)
             /\ \A i \in DOMAIN resources :
                  /\ listed[i].uri = UriString(resources[i].uri)
                  /\ listed[i].name = resources[i].name
                  /\ listed[i].mimeType = resources[i].mimeType
    /\ ListedAs(r, "resources/templates/list") =>
         LET listed == requests[r].response.result.resourceTemplates
         IN  /\ Len(listed) = Len(resourceTemplates)
             /\ \A i \in DOMAIN resourceTemplates :
                  /\ listed[i].name = resourceTemplates[i].name
                  /\ listed[i].uriTemplate = resourceTemplates[i].uriTemplate
    /\ ListedAs(r, "prompts/list") =>
         LET listed == requests[r].response.result.prompts
         IN  /\ Len(listed) = Len(prompts)
             /\ \A i \in DOMAIN prompts :
                  /\ listed[i].name = prompts[i].name
                  /\ listed[i].arguments = prompts[i].arguments

\* two tools with different names were registered and list-tools answered
\* with their two entries, the first registered first
C27_Witness ==
  \E r \in DOMAIN requests :
    /\ ListedAs(r, "tools/list")
    /\ Len(tools) = 2
    /\ tools[1].name # tools[2].name
    /\ Len(requests[r].response.result.tools) = 2
    /\ requests[r].response.result.tools[1].name = tools[1].name

----------------------------------------------------------------------------
(* Properties of result normalization, checked under SpecNormalize *)

\* C30: result normalization is idempotent on envelopes.  For every valid
\* envelope e = {content: [...], isError?}, normalizing e yields e, and
\* normalizing that result again yields the same value.
C30_NormalizationIdempotent ==
  \A r \in DOMAIN requests :
    (/\ requests[r].value.k = "object"
     /\ "content" \in DOMAIN requests[r].value.obj
     /\ IsEnvelope(requests[r].value.obj)) =>
      \A i \in DOMAIN requests[r].results :
        /\ requests[r].results[i].ok
        /\ requests[r].results[i].value = requests[r].value.obj

\* an envelope of two content items with isError was normalized twice and
\* came out as it went in
C30_Witness ==
  \E r \in DOMAIN requests :
    /\ requests[r].value.k = "object"
    /\ "content" \in DOMAIN requests[r].value.obj
    /\ IsEnvelope(requests[r].value.obj)
    /\ Len(requests[r].value.obj.content) = 2
    /\ "isError" \in DOMAIN requests[r].value.obj
    /\ requests[r].value.obj.isError
    /\ Len(requests[r].results) = 2
    /\ requests[r].results[2].value = requests[r].value.obj

----------------------------------------------------------------------------
(* Properties of tool calls on the Sessions of a host, checked under SpecCalls *)

\* the Session that received the request of execute call c
SessionOfCall(c) == requests[executeCalls[c].request].session

\* C31: the session value in the context of every execute call is the auth
\* that the Session handling the request was constructed with (the result of
\* authenticate for its connection, or undefined), so a call on one Session
\* is never given the auth of another Session; and the auth a Session was
\* constructed with never changes afterwards
C31_AuthIsolation ==
  /\ [](\A c \in DOMAIN executeCalls :
          executeCalls[c].context.session = instances[SessionOfCall(c)].auth)
  /\ [][\A s \in DOMAIN instances :
          /\ s \in DOMAIN instances'
          /\ instances'[s].auth = instances[s].auth]_vars

\* two Sessions constructed with different auth values each called a tool
C31_Witness ==
  \E c, d \in DOMAIN executeCalls :
    /\ SessionOfCall(c) # SessionOfCall(d)
    /\ instances[SessionOfCall(c)].auth = Obj([id |-> "alice"])
    /\ instances[SessionOfCall(d)].auth = Obj([id |-> "bob"])
    /\ executeCalls[c].context.session # executeCalls[d].context.session

\* the progress notifications among the first n sent that execute call c emitted
ProgressSentBy(c, n) == {m \in 1..n : notifications[m].call = c}

\* C32: every progress notification carries the progress token of the request
\* that started the call which emitted it (no token if the request had none),
\* also while other calls are in flight on the same Session, and the
\* notifications of one call are sent in the order the call emitted them
C32_ProgressTokenOfOwnRequest ==
  \A n \in DOMAIN notifications :
    LET c == notifications[n].call
    IN  /\ notifications[n].progressToken =
             requests[executeCalls[c].request].progressToken
        /\ notifications[n].session = requests[executeCalls[c].request].session
        /\ notifications[n].progress = Cardinality(ProgressSentBy(c, n))

\* two calls with different tokens are in flight on one Session; the later
\* call reported progress between two reports of the earlier call
C32_Witness ==
  /\ Len(notifications) = 3
  /\ \E c, d \in DOMAIN executeCalls :
       /\ c < d
       /\ SessionOfCall(c) = SessionOfCall(d)
       /\ requests[executeCalls[c].request].pc = "execute"
       /\ requests[executeCalls[d].request].pc = "execute"
       /\ executeCalls[c].context.progressToken = Str("t1")
       /\ executeCalls[d].context.progressToken = Undefined
       /\ notifications[1].call = c
       /\ notifications[2].call = d
       /\ notifications[3].call = c

\* C33: requests on one Session are handled one at a time in arrival order:
\* when a request has reached its handler, every request that arrived earlier
\* on the same Session has been fully handled and its response produced
C33_OneRequestAtATime ==
  \A r1, r2 \in DOMAIN requests :
    (r1 < r2 /\ requests[r1].session = requests[r2].session)
      => requests[r1].response # NoResponse

----------------------------------------------------------------------------
(* Convergence of the roots re-fetches, checked under SpecRoots *)

\* every re-fetch started by a roots-changed notification has settled
AllRefetchesSettled ==
  \A n \in DOMAIN refetches : refetches[n].outcome # Pending

\* C35: once the re-fetches of all roots-changed notifications received have
\* settled, in whatever order, the stored roots are the list returned for the
\* most recently received notification; and a re-fetch that fails leaves the
\* stored roots as they were and emits no rootsChanged event
C35_RootsConvergeToNewest ==
  /\ []((/\ refetches # <<>>
         /\ AllRefetchesSettled
         /\ refetches[Len(refetches)].outcome.settled = "returned")
          => roots = refetches[Len(refetches)].outcome.value.roots)
  /\ [][\A n \in DOMAIN refetches :
          (refetches[n].outcome = Pending /\ refetches'[n].outcome.settled = "thrown")
            => (roots' = roots /\ rootsChanged' = rootsChanged)]_vars

----------------------------------------------------------------------------
(* The registry view of a Session, checked under SpecSnapshot *)

\* the registries as they were when Session s was constructed
ToolsAtConstruction(s) == SubSeq(tools, 1, instances[s].constructedWith.tools)

\* what a list request on Session s answers from the registries as they were
\* when the Session was constructed
ListResultAtConstruction(s, method) ==
  CASE method = "tools/list" -> [tools |-> ToolEntries(ToolsAtConstruction(s))]
    [] method = "resources/list" ->
         [resources |-> ResourceEntries(
            SubSeq(resources, 1, instances[s].constructedWith.resources))]
    [] method = "resources/templates/list" ->
         [resourceTemplates |-> ResourceTemplateEntries(
            SubSeq(resourceTemplates, 1, instances[s].constructedWith.resourceTemplates))]
    [] method = "prompts/list" ->
         [prompts |-> PromptEntries(
            SubSeq(prompts, 1, instances[s].constructedWith.prompts))]

\* C34: a Session's registry view is fixed at its construction: whatever is
\* registered on the host afterwards, a list request on the Session answers
\* with the entities registered at its construction and a call-tool request
\* resolves its name among the tools registered at its construction; and the
\* names a list-tools request returns are exactly the names a call-tool
\* request on that Session resolves
C34_RegistrySnapshot ==
  /\ \A r \in DOMAIN requests :
       /\ requests[r].method \in ListMethods =>
            requests[r].response =
              IF ListHandlerRegisteredOn(requests[r].session, requests[r].method)
                THEN Reply(ListResultAtConstruction(requests[r].session,
                                                    requests[r].method))
                ELSE MethodNotFoundByProtocol
       /\ requests[r].method = "tools/call" =>
            LET registry == ToolsAtConstruction(requests[r].session)
            IN  IF registry = <<>>
                  THEN requests[r].response = MethodNotFoundByProtocol
                  ELSE IF \E i \in DOMAIN registry : registry[i].name = requests[r].name
                    THEN /\ requests[r].tool \in DOMAIN registry
                         /\ registry[requests[r].tool].name = requests[r].name
                         /\ \E c \in DOMAIN executeCalls : executeCalls[c].request = r
                    ELSE requests[r].response =
                           Reject(McpError("MethodNotFound",
                                           "Unknown tool: " \o requests[r].name))
  /\ \A s \in DOMAIN instances :
       instances[s].constructedWith.tools > 0 =>
         \A name \in ToolNames :
           (\E i \in DOMAIN tools : ToolEntries(tools)[i].name = name)
             <=> FindTool(name) # 0

====
